---- MODULE Spec2Model ----
(***************************************************************************)
(* Verification model of the Table.se scraper suite: the persistent        *)
(* content cache (scraper/cache.py), the fetcher (scraper/fetch.py), the   *)
(* product stage and the two pooled stages of the orchestrator             *)
(* (scraper/backend.py, scraper/product.py), the category walker and the   *)
(* URL collectors (scraper/category.py, scraper/product.py and the older   *)
(* single-file backends), the QC gate (scraper/scanner.py,                 *)
(* exporter/qc.py), the exporters (exporter/csv.py) and the run of the     *)
(* program to its exit status (scraper/backend.py, main.py).               *)
(***************************************************************************)
EXTENDS Integers, Sequences, FiniteSets, TLC

VARIABLES
    fs,        \* the files on disk, by name: "cache", "corrupt", temporaries
    last,      \* the cache call that returned last (calls made one at a time)
    prev,      \* the Cache.set call, if any, that returned right before `last`
    wk,        \* per worker thread: its position and locals inside a cache call
    ft,        \* the state of one fetch_url call
    st,        \* the product stage (scrape_products): run, settings, site, results
    tk,        \* the process(url) task of the product stage that is running
    po,        \* the pipeline of backend.main: its driver, thread pool and tasks
    wa,        \* the walker and the URL collectors, run under two exclusion lists
    qc,        \* the QC gate applied to one list of records
    rn         \* one run of the program from its scraping to its exit

cacheVars == <<last, prev>>
concVars  == <<wk>>
fetchVars == <<ft>>
stageVars == <<st, tk>>
poolVars  == <<po>>
walkVars  == <<wa>>
qcVars    == <<qc>>
runVars   == <<rn>>
vars == <<fs, last, prev, wk, ft, st, tk, po, wa, qc, rn>>

(***************************************************************************)
(* Python values. Every value has the same shape so that values of         *)
(* different Python types can be compared: ty is the Python type, s the    *)
(* text of a str, items the items of a dict.                               *)
(***************************************************************************)
PyNone == [ty |-> "NoneType", s |-> "", items |-> <<>>]
PyStr(text) == [ty |-> "str", s |-> text, items |-> <<>>]
PyDict(d) == [ty |-> "dict", s |-> "", items |-> d]
PyBool(b) == [ty |-> "bool", s |-> IF b THEN "True" ELSE "False", items |-> <<>>]

\* Python truth value testing: None, "" and {} are false.
Truthy(v) ==
    CASE v.ty = "NoneType" -> FALSE
      [] v.ty = "str" -> v.s # ""
      [] v.ty = "dict" -> DOMAIN v.items # {}
      [] v.ty = "bool" -> v.s = "True"

(***************************************************************************)
(* JSON text of a value, as json.dump writes it and json.load reads it.    *)
(***************************************************************************)
RECURSIVE json_dumps(_)
\* mutant: None is written as the empty string
json_dumps_none_as_text(v) ==
    CASE v.ty = "NoneType" -> [js |-> "string", s |-> "", members |-> <<>>]
      [] v.ty = "str" -> [js |-> "string", s |-> v.s, members |-> <<>>]
      [] v.ty = "dict" ->
            [js |-> "object", s |-> "",
             members |-> [f \in DOMAIN v.items |-> json_dumps(v.items[f])]]

json_dumps(v) ==
    CASE v.ty = "NoneType" -> [js |-> "null", s |-> "", members |-> <<>>]
      [] v.ty = "str" -> [js |-> "string", s |-> v.s, members |-> <<>>]
      [] v.ty = "dict" ->
            [js |-> "object", s |-> "",
             members |-> [f \in DOMAIN v.items |-> json_dumps(v.items[f])]]

RECURSIVE json_loads(_)
json_loads(j) ==
    CASE j.js = "null" -> PyNone
      [] j.js = "string" -> PyStr(j.s)
      [] j.js = "object" ->
            PyDict([f \in DOMAIN j.members |-> json_loads(j.members[f])])

(***************************************************************************)
(* The bytes of a file, in chunks. A cache file written by save_cache is   *)
(* "{", one member per key, "}". A chunk "0xFF" is a byte sequence that is *)
(* not UTF-8; a chunk "junk" is text that is not JSON.                     *)
(***************************************************************************)
JNull == [js |-> "null", s |-> "", members |-> <<>>]
Chunk(kind) == [tok |-> kind, key |-> "", hash |-> JNull, data |-> JNull]
Open == Chunk("{")
Close == Chunk("}")
BadByte == Chunk("0xFF")
Junk == Chunk("junk")
Member(k, item) ==
    [tok |-> "member", key |-> k,
     hash |-> json_dumps(item.hash), data |-> json_dumps(item.data)]

RECURSIVE dump_members(_, _)
dump_members(cache, keys) ==
    IF keys = {} THEN <<>>
    ELSE LET k == CHOOSE x \in keys : TRUE
         IN <<Member(k, cache[k])>> \o dump_members(cache, keys \ {k})

\* json.dump(cache, tf): the whole text of the cache dict.
json_dump(cache) == <<Open>> \o dump_members(cache, DOMAIN cache) \o <<Close>>

\* open(..., encoding="utf-8").read() raises UnicodeDecodeError on bytes that
\* are not UTF-8.
utf8_ok(bytes) == \A i \in 1..Len(bytes) : bytes[i].tok # "0xFF"

\* json.load raises JSONDecodeError unless the text is one complete object.
json_ok(bytes) ==
    /\ Len(bytes) >= 2
    /\ bytes[1].tok = "{"
    /\ bytes[Len(bytes)].tok = "}"
    /\ \A i \in 2..(Len(bytes) - 1) : bytes[i].tok = "member"

\* json.load(f) of a complete object: the cache dict (a later member of the
\* same key replaces an earlier one).
json_load(bytes) ==
    LET idx == 2..(Len(bytes) - 1)
        keys == {bytes[i].key : i \in idx}
        lastOf(k) == CHOOSE i \in idx :
                        /\ bytes[i].key = k
                        /\ \A j \in idx : bytes[j].key = k => j <= i
    IN [k \in keys |->
            [hash |-> json_loads(bytes[lastOf(k)].hash),
             data |-> json_loads(bytes[lastOf(k)].data)]]

NoFile == [exists |-> FALSE, bytes |-> <<>>]
File(bytes) == [exists |-> TRUE, bytes |-> bytes]
EmptyCache == <<>>

(***************************************************************************)
(* Cache.load_cache: the outcome of reading the cache file `f`.            *)
(*   cache  - the dict returned                                            *)
(*   backup - whether the file was copied to filename + ".corrupt"         *)
(***************************************************************************)
load_cache(f) ==
    IF ~f.exists THEN [cache |-> EmptyCache, backup |-> FALSE]
    ELSE IF ~utf8_ok(f.bytes)
         THEN \* UnicodeDecodeError: the generic "except Exception" branch
              [cache |-> EmptyCache, backup |-> FALSE]
    ELSE IF ~json_ok(f.bytes)
         THEN \* json.JSONDecodeError: shutil.copy2 to ".corrupt"
              [cache |-> EmptyCache, backup |-> TRUE]
    ELSE [cache |-> json_load(f.bytes), backup |-> FALSE]

\* The files after load_cache has run on them.
after_load(files) ==
    IF load_cache(files.cache).backup
    THEN [files EXCEPT !.corrupt = files.cache]
    ELSE files

\* Cache.save_cache on a disk that takes the write: the temporary file is
\* written in full and renamed over the cache file.
save_cache(files, cache) == [files EXCEPT !.cache = File(json_dump(cache))]

\* dict.get(key): the item, or None
HasKey(cache, key) == key \in DOMAIN cache

(***************************************************************************)
(* Cache.get / Cache.exists / Cache.set / Cache.invalidate as whole calls. *)
(* content_hash is a Python value: a str or None.                          *)
(***************************************************************************)
\* mutant: the stored hash is not compared
Cache_get_any_hash(files, key, content_hash) ==
    LET cache == load_cache(files.cache).cache
    IN IF HasKey(cache, key) THEN cache[key].data ELSE PyNone

Cache_get(files, key, content_hash) ==
    LET cache == load_cache(files.cache).cache
    IN IF HasKey(cache, key)
          /\ (content_hash = PyNone \/ cache[key].hash = content_hash)
       THEN cache[key].data
       ELSE PyNone

Cache_exists(files, key, content_hash) ==
    LET cache == load_cache(files.cache).cache
    IN IF ~HasKey(cache, key) THEN FALSE
       ELSE IF Truthy(content_hash) /\ cache[key].hash # content_hash THEN FALSE
       ELSE TRUE

set_item(cache, key, data, content_hash) ==
    [k \in DOMAIN cache \cup {key} |->
        IF k = key THEN [hash |-> content_hash, data |-> data] ELSE cache[k]]

\* mutant: the empty key is stored like any other
set_rejects_nothing(key) == FALSE

set_rejects(key) == key = ""

Cache_set(files, key, data, content_hash) ==
    IF set_rejects(key) THEN files
    ELSE save_cache(after_load(files),
                    set_item(load_cache(files.cache).cache, key, data, content_hash))

del_item(cache, key) == [k \in DOMAIN cache \ {key} |-> cache[k]]

Cache_invalidate(files, key) ==
    LET cache == load_cache(files.cache).cache
    IN IF HasKey(cache, key)
       THEN save_cache(after_load(files), del_item(cache, key))
       ELSE after_load(files)

(***************************************************************************)
(* scraper/fetch.py: fetch_url. One session.get ends in a response or in a *)
(* transport exception; `f` is the state of one fetch_url call.            *)
(***************************************************************************)
Resp(status, text) == [kind |-> "response", status |-> status, text |-> text]
Transport(kind) == [kind |-> kind, status |-> 0, text |-> ""]

NoExc == [exc |-> "None", status |-> 0]
HTTPError(status) == [exc |-> "HTTPError", status |-> status]
TypeError == [exc |-> "TypeError", status |-> 0]

\* resp.raise_for_status() raises for a 4xx or 5xx status
raises_for_status(o) == o.kind = "response" /\ o.status >= 400 /\ o.status < 600

\* the exception one attempt ends in, NoExc when it succeeds
attempt_exc(o) ==
    IF o.kind # "response" THEN [exc |-> o.kind, status |-> 0]
    ELSE IF raises_for_status(o) THEN HTTPError(o.status)
    ELSE NoExc

\* the Retry object of get_session: total=5
AdapterTotal == 5

fetch_begin(max_retries) ==
    [pc |-> "loop", max_retries |-> max_retries, attempt |-> 0, calls |-> 0,
     last_exc |-> NoExc, log |-> <<>>, text |-> "", error |-> NoExc]

\* for attempt in range(max_retries)
loop_continues(f) == f.attempt < f.max_retries

\* one pass of the loop body: session.get ended in `o`
fetch_attempt(f, o) ==
    IF attempt_exc(o) = NoExc
    THEN [f EXCEPT !.pc = "returned", !.text = o.text,
                   !.calls = @ + 1, !.log = Append(@, o)]
    ELSE \* except Exception as e: last_exc = e; sleep; next attempt
         [f EXCEPT !.last_exc = attempt_exc(o), !.attempt = @ + 1,
                   !.calls = @ + 1, !.log = Append(@, o)]

\* after the loop: raise last_exc (raising None is a TypeError)
fetch_give_up(f) ==
    [f EXCEPT !.pc = "raised",
              !.error = IF f.last_exc = NoExc THEN TypeError ELSE f.last_exc]

\* the most requests the session's adapter may have sent for the calls made
wire_requests_max(f) == f.calls * (AdapterTotal + 1)

(***************************************************************************)
(* exclusions.py: is_excluded. A URL is the text after the host, as its    *)
(* path segments; a prefix matches when its segments begin the URL's.      *)
(***************************************************************************)
EXCLUDED_URL_PREFIXES ==
    {<<"produkter", "container">>, <<"produkter", "teknik">>, <<"produkter", "talt">>}

startswith(path, prefix) ==
    /\ Len(prefix) <= Len(path)
    /\ \A i \in 1..Len(prefix) : path[i] = prefix[i]

BASE_URL == "https://www.table.se"
U1 == "https://www.table.se/produkter/bord/p1"
U2 == "https://www.table.se/produkter/container/c1"
CatBord == "https://www.table.se/produkter/bord/"
CatMatbord == "https://www.table.se/produkter/bord/matbord/"
CatContainer == "https://www.table.se/produkter/container/"
CatContainerSmall == "https://www.table.se/produkter/container/small/"
CatRea == "https://www.table.se/produkter/rea/"
P1Rea == "https://www.table.se/produkter/rea/p1"
P2 == "https://www.table.se/produkter/bord/p2"
url_path(url) ==
    CASE url = U1 -> <<"produkter", "bord", "p1">>
      [] url = U2 -> <<"produkter", "container", "c1">>
      [] url = BASE_URL -> <<>>
      [] url = CatBord -> <<"produkter", "bord">>
      [] url = CatMatbord -> <<"produkter", "bord", "matbord">>
      [] url = CatContainer -> <<"produkter", "container">>
      [] url = CatContainerSmall -> <<"produkter", "container", "small">>
      [] url = CatRea -> <<"produkter", "rea">>
      [] url = P1Rea -> <<"produkter", "rea", "p1">>
      [] url = P2 -> <<"produkter", "bord", "p2">>

\* any(url.startswith(prefix) for prefix in prefixes)
is_excluded_under(prefixes, url) ==
    \E prefix \in prefixes : startswith(url_path(url), prefix)

is_excluded(url) == is_excluded_under(EXCLUDED_URL_PREFIXES, url)

(***************************************************************************)
(* scraper/product.py: scrape_product. A page is what the selectors find   *)
(* in its HTML; the HTML text itself is named by one word.                 *)
(***************************************************************************)
\* hashlib.md5(content).hexdigest(), one digest per content
hash_content(content) == "md5(" \o content \o ")"

\* the parsed document of each HTML text the site serves
soup(html) ==
    CASE html = "pageA" ->
            [namn |-> "Bord Alfa", sku |-> <<"A", "r", "t", ".", "1", "2">>,
             pris |-> "1499", langd |-> FALSE, canonical |-> ""]
      [] html = "pageA2" ->
            [namn |-> "Bord Alfa II", sku |-> <<"1", "2">>,
             pris |-> "1599", langd |-> TRUE, canonical |-> U1]
      [] html = "pageN" ->
            [namn |-> "Stol", sku |-> <<"n", "/", "a">>,
             pris |-> "", langd |-> FALSE, canonical |-> ""]

Digits == {"0", "1", "2", "3", "4", "5", "6", "7", "8", "9"}

\* "".join(filter(str.isdigit, str(artikelnummer_raw)))
RECURSIVE only_digits(_)
only_digits(chars) ==
    IF chars = <<>> THEN ""
    ELSE (IF Head(chars) \in Digits THEN Head(chars) ELSE "") \o only_digits(Tail(chars))

\* main_fields.get("Laengd (vaerde)"): None when the panel has no measurement
measurement(page) == IF page.langd THEN PyStr("165") ELSE PyNone

\* the `data` dict scrape_product builds from a page
extract(page, product_url) ==
    PyDict([f \in {"Namn", "Artikelnummer", "Pris inkl. moms (varde)",
                   "Langd (varde)", "Produkt-URL"} |->
        CASE f = "Namn" -> PyStr(page.namn)
          [] f = "Artikelnummer" -> PyStr(only_digits(page.sku))
          [] f = "Pris inkl. moms (varde)" -> PyStr(page.pris)
          [] f = "Langd (varde)" -> measurement(page)
          [] f = "Produkt-URL" ->
                PyStr(IF page.canonical # "" THEN page.canonical ELSE product_url)])

\* resp.ok
resp_ok(o) == o.kind = "response" /\ o.status < 400

(***************************************************************************)
(* scrape_product(product_url) on the files `files`, when its              *)
(* requests.get ends in `o`:                                               *)
(*   ret      - the value returned                                         *)
(*   files    - the files afterwards                                       *)
(*   requests - the number of HTTP requests made                           *)
(*   sku, hash, warm, stored - what the call looked up and whether         *)
(*              update_cache was called                                    *)
(***************************************************************************)
scrape_product(files, product_url, o) ==
    LET none == [ret |-> PyNone, files |-> files, sku |-> "", hash |-> "",
                 warm |-> FALSE, stored |-> FALSE]
    IN
    IF is_excluded(product_url) THEN none @@ [requests |-> 0]
    ELSE IF ~resp_ok(o) THEN none @@ [requests |-> 1]
    ELSE
        LET page == soup(o.text)
            artikelnummer_digits == only_digits(page.sku)
            content_hash == hash_content(o.text)
            cached == Cache_get(files, artikelnummer_digits, PyStr(content_hash))
            loaded == after_load(files)
            data == extract(page, product_url)
        IN IF Truthy(cached)
           THEN [ret |-> cached, files |-> loaded, sku |-> artikelnummer_digits,
                 hash |-> content_hash, warm |-> TRUE, stored |-> FALSE,
                 requests |-> 1]
           ELSE [ret |-> data,
                 files |-> Cache_set(loaded, artikelnummer_digits, data,
                                     PyStr(content_hash)),
                 sku |-> artikelnummer_digits, hash |-> content_hash,
                 warm |-> FALSE,
                 stored |-> ~set_rejects(artikelnummer_digits),
                 requests |-> 1]

\* product.get("Artikelnummer") or product.get("Namn") or url
dedup_sku(product, url) ==
    IF Truthy(product.items["Artikelnummer"]) THEN product.items["Artikelnummer"].s
    ELSE IF Truthy(product.items["Namn"]) THEN product.items["Namn"].s
    ELSE url

(***************************************************************************)
(* scraper/backend.py: the pipeline of main() on a thread pool. The site   *)
(* it runs on has two categories; one product is listed under both, at     *)
(* two URLs whose pages carry the same SKU and the same canonical link.    *)
(***************************************************************************)
\* category_urls after recurse() has walked the tree, in tree order
PoolCategoryURLs == <<CatBord, CatRea>>
\* the product links (a.woocommerce-LoopProduct-link) on a category page
category_links(category_url) ==
    CASE category_url = CatBord -> {U1, P2}
      [] category_url = CatRea -> {P1Rea, U2}
      [] category_url = CatMatbord -> {U1}
      [] category_url = CatContainer -> {U2}
      [] category_url = CatContainerSmall -> {U2}
\* what the product page at a URL carries: its SKU and <link rel="canonical">
product_page(url) ==
    CASE url = U1 -> [sku |-> "101", canonical |-> U1]
      [] url = P1Rea -> [sku |-> "101", canonical |-> U1]
      [] url = P2 -> [sku |-> "102", canonical |-> P2]
PoolProductURLs == {U1, P1Rea, P2}
PoolURLs == {PoolCategoryURLs[i] : i \in DOMAIN PoolCategoryURLs} \cup PoolProductURLs
IsCategory(url) == \E i \in DOMAIN PoolCategoryURLs : PoolCategoryURLs[i] = url

\* mutant: the handlers catch nothing
except_nothing(e) == FALSE

\* `except Exception`: every exception but the BaseException-only ones
except_Exception(e) == e # "KeyboardInterrupt"

\* a future of the executor and the call it runs (fetch_products or process):
\*   status  - none (not submitted), pending, running, finished, collected
\*   pc      - where the call is: try, extract, check, add
\*   attempt - the pass of `for attempt in range(retries + 1)`
\*   fa      - the attempts fetch_url has made in this pass
\*   cached  - cache.exists(url)
\*   raised  - an exception was raised inside the call
\*   scraped - scrape_product returned a product
\*   exc     - the exception the future holds; ret - the value it holds
TaskNone == [status |-> "none", pc |-> "", attempt |-> 0, fa |-> 0,
             cached |-> FALSE, raised |-> FALSE, scraped |-> FALSE,
             exc |-> "none", ret |-> {}]

PoolBegin(max_workers, retries) ==
    [pc |-> "submitA", max_workers |-> max_workers, retries |-> retries,
     cancelled |-> FALSE, exc |-> "none", next |-> 1,
     task |-> [u \in PoolURLs |-> TaskNone],
     all_product_urls |-> {}, product_urls |-> {}, seen_keys |-> {},
     results |-> <<>>, requests |-> 0]

Submitted(p) == {u \in PoolURLs : p.task[u].status # "none"}
Running(p) == {u \in PoolURLs : p.task[u].status = "running"}
Unfinished(p) == {u \in PoolURLs : p.task[u].status \in {"pending", "running"}}

\* the call returns `ret`
task_return(p, u, ret) ==
    [p EXCEPT !.task[u] = [@ EXCEPT !.status = "finished", !.pc = "", !.ret = ret]]

\* exception e is raised inside the try of fetch_products / process
task_raise(p, u, e) ==
    LET t == p.task[u] IN
    IF except_Exception(e)
    THEN IF t.attempt < p.retries
         THEN \* sleep, next pass
              [p EXCEPT !.task[u] = [t EXCEPT !.attempt = @ + 1, !.fa = 0,
                                              !.pc = "try", !.raised = TRUE]]
         ELSE \* the loop ends: return [] / return None
              [p EXCEPT !.task[u] = [t EXCEPT !.status = "finished", !.pc = "",
                                              !.raised = TRUE, !.ret = {}]]
    ELSE \* the exception leaves the call and is kept by the future
         [p EXCEPT !.task[u] = [t EXCEPT !.status = "finished", !.pc = "",
                                         !.raised = TRUE, !.exc = e]]

\* one attempt of fetch_url(url, max_retries=retries) ending in o
task_fetch(p, u, o) ==
    LET q == [p EXCEPT !.requests = @ + 1] IN
    IF o = "ok"
    THEN \* cache.set(url, html, hash)
         [q EXCEPT !.task[u] = [@ EXCEPT !.cached = TRUE, !.pc = "extract"]]
    ELSE [q EXCEPT !.task[u] = [@ EXCEPT !.fa = @ + 1]]

\* fetch_url's loop is over: raise last_exc (None when no attempt was made)
task_fetch_raise(p, u) ==
    task_raise(p, u, IF p.retries = 0 THEN "TypeError" ELSE "RequestException")

\* extract_products_from_category(url) of fetch_products
task_extract_category(p, u, o) ==
    LET q == [p EXCEPT !.requests = @ + 1] IN
    CASE o = "ok" -> task_return(q, u, {l \in category_links(u) : ~is_excluded(l)})
      [] o = "fail" -> task_return(q, u, {})
      [] o = "parse_error" -> task_raise(q, u, "ParserError")

\* scrape_product(url) of process
task_scrape_product(p, u, o) ==
    LET q == [p EXCEPT !.requests = @ + 1] IN
    CASE o = "ok" -> [q EXCEPT !.task[u] = [@ EXCEPT !.pc = "check", !.scraped = TRUE]]
      [] o = "fail" -> task_return(q, u, {})
      [] o = "parse_error" -> task_raise(q, u, "ParserError")

\* key = (product.get("Artikelnummer") or product.get("Namn") or url, url)
seen_key(u) == <<product_page(u).sku, u>>

\* if key in seen_keys: return None
task_seen_check(p, u) ==
    IF seen_key(u) \in p.seen_keys THEN task_return(p, u, {})
    ELSE [p EXCEPT !.task[u] = [@ EXCEPT !.pc = "add"]]

\* seen_keys.add(key); return product
task_seen_add(p, u) ==
    task_return([p EXCEPT !.seen_keys = @ \cup {seen_key(u)}], u, {u})

\* the record scrape_product built for the page at u
pool_record(u) ==
    [url |-> u, sku |-> product_page(u).sku, produkt_url |-> product_page(u).canonical]

\* the body of `for future in as_completed(...)` for the finished future u
collect(p, u) ==
    LET t == p.task[u]
        q == [p EXCEPT !.task[u] = [@ EXCEPT !.status = "collected"]]
    IN
    IF t.exc # "none"
    THEN \* future.result() raises what the call raised
         IF except_Exception(t.exc) THEN q
         ELSE [q EXCEPT !.pc = "abort", !.exc = t.exc]
    ELSE IF IsCategory(u)
         THEN [q EXCEPT !.all_product_urls = @ \cup t.ret]
         ELSE IF t.ret # {} THEN [q EXCEPT !.results = Append(@, pool_record(u))]
              ELSE q

\* mutant: the stage returns without waiting for its futures
collect_returns_early(p, stage_urls) == TRUE

\* as_completed has yielded every future of the stage
collect_returns(p, stage_urls) ==
    \A u \in stage_urls : p.task[u].status = "collected"

\* the with-block's exit, executor.shutdown(wait=True), is over
shutdown_done(p) == Unfinished(p) = {}

(***************************************************************************)
(* scraper/category.py: the walker. The mega menu is a <ul> of <li>        *)
(* entries; an entry is the href of its link ("" when it has none) and     *)
(* its nested <ul> (<<>> when it has none).                                *)
(***************************************************************************)
Li(href, sub_ul) == [href |-> href, ul |-> sub_ul]

\* urljoin(BASE_URL, href)
urljoin(href) ==
    CASE href = "/produkter/bord/" -> CatBord
      [] href = "/produkter/bord/matbord/" -> CatMatbord
      [] href = "/produkter/container/" -> CatContainer
      [] href = "/produkter/container/small/" -> CatContainerSmall
      [] href = "/produkter/rea/" -> CatRea
      [] href = "/om-oss/" -> "https://www.table.se/om-oss/"

\* "/produkter/" in href
in_produkter(href) == href \notin {"", "/om-oss/"}

\* parse_menu_ul(ul, level): the category dicts of the <li> children of ul
RECURSIVE parse_menu_ul(_, _)
parse_menu_ul(ul, level) ==
    IF ul = <<>> THEN <<>>
    ELSE LET li == Head(ul)
             rest == parse_menu_ul(Tail(ul), level)
         IN IF li.href = "" \/ ~in_produkter(li.href) THEN rest
            ELSE <<[url |-> urljoin(li.href), level |-> level,
                    subs |-> parse_menu_ul(li.ul, level + 1)]>> \o rest

\* nav.find_all("ul"): the <ul> elements under ul, itself first, in document order
RECURSIVE find_all_ul(_)
RECURSIVE find_all_ul_in(_)
find_all_ul_in(lis) ==
    IF lis = <<>> THEN <<>>
    ELSE (IF Head(lis).ul = <<>> THEN <<>> ELSE find_all_ul(Head(lis).ul))
         \o find_all_ul_in(Tail(lis))
find_all_ul(ul) == <<ul>> \o find_all_ul_in(ul)

\* max(uls, key=number of <li> children): the first of the longest
top_ul(uls) ==
    LET longest == CHOOSE n \in {Len(uls[i]) : i \in DOMAIN uls} :
                       \A i \in DOMAIN uls : Len(uls[i]) <= n
        first == CHOOSE i \in DOMAIN uls :
                     /\ Len(uls[i]) = longest
                     /\ \A j \in DOMAIN uls : Len(uls[j]) = longest => i <= j
    IN uls[first]

\* extract_category_tree() on a page whose nav holds the menu
extract_category_tree(menu) ==
    IF menu = <<>> THEN <<>> ELSE parse_menu_ul(top_ul(find_all_ul(menu)), 0)

\* the exception extract_category_tree() ends with, "" when it returns:
\* requests.get(BASE_URL) is not in a try block and its status is not
\* looked at; a body without nav.edgtf-main-menu raises RuntimeError
extract_category_tree_raises(home) ==
    IF home = "ConnectionError" THEN "ConnectionError"
    ELSE IF home = "HTTPError" THEN "RuntimeError"
    ELSE ""

\* all_category_urls(tree): the URLs of the nodes, parents before children
RECURSIVE all_category_urls(_)
all_category_urls(tree) ==
    IF tree = <<>> THEN <<>>
    ELSE <<Head(tree).url>> \o all_category_urls(Head(tree).subs)
         \o all_category_urls(Tail(tree))

\* collect_product_urls.recurse over the tree: category_urls
RECURSIVE recurse(_, _)
recurse(tree, prefixes) ==
    IF tree = <<>> THEN <<>>
    ELSE (IF ~is_excluded_under(prefixes, Head(tree).url)
          THEN <<Head(tree).url>> ELSE <<>>)
         \o recurse(Head(tree).subs, prefixes) \o recurse(Tail(tree), prefixes)

\* extract_products_from_category(category_url): the links kept
filtered_links(category_url, prefixes) ==
    {u \in category_links(category_url) : ~is_excluded_under(prefixes, u)}

\* f"{category_url}?page={page}" if page > 1 else category_url
paged_url(category_url, page) ==
    IF page > 1 THEN category_url \o "?page=" \o ToString(page) ELSE category_url

\* a request, by the part of the pipeline that made it; `of` is the
\* category or product the part was working on
Request(who, of, url) == [who |-> who, of |-> of, url |-> url]

(***************************************************************************)
(* Bounds of the model and the values the calls are made with.             *)
(***************************************************************************)
MaxKeys == 1
MaxOps == 2
MaxRetries == 3
MaxStageRetries == 2
MaxRuns == 2

KeyNames == <<"k1", "k2", "k3">>
Keys == {KeyNames[i] : i \in 1..MaxKeys}
Hashes == {"h1", "h2"}
Payloads == {PyStr("p1"), PyDict([Namn |-> PyStr("Bord"), Hoejd |-> PyNone])}
\* what a caller may pass as content_hash: a hash, the empty string, or nothing
HashArgs == {PyStr(h) : h \in Hashes} \cup {PyStr(""), PyNone}
\* what the cache file may be replaced with from outside the program
Garbage == {<<Junk>>, <<BadByte, Junk>>, <<Open>>, <<>>}

Workers == {"w1", "w2"}
WorkerKeys == {"k1", "k2"}
\* mutant: save_cache writes into the cache file itself
tempname_is_target(w) == "cache"

tempname(w) == "tmp_" \o w
FileNames == {"cache", "corrupt"} \cup {tempname(w) : w \in Workers}

NoCall == [op |-> "none", key |-> "", hash |-> PyNone, data |-> PyNone, ret |-> PyNone]
Call(op, key, hash, data, ret) ==
    [op |-> op, key |-> key, hash |-> hash, data |-> data, ret |-> ret]

WorkerIdle == [pc |-> "idle", key |-> "", cache |-> EmptyCache, todo |-> <<>>,
               observed |-> NoFile, racing |-> FALSE, stored |-> {}, ops |-> 0]
FetchIdle == [fetch_begin(0) EXCEPT !.pc = "idle"]
\* what one session.get may end in
Outcomes == {Resp(200, "page"), Resp(404, ""), Resp(429, ""), Resp(503, ""),
             Transport("ConnectionError"), Transport("Timeout")}

ProductURLs == {U1, U2}
Htmls == {"pageA", "pageA2", "pageN"}
TaskIdle == [url |-> "", pc |-> "idle", attempt |-> 0, f |-> FetchIdle,
             html |-> PyNone, product |-> PyNone, ret |-> PyNone,
             net |-> 0, fetch_calls |-> 0, hit |-> FALSE,
             sku |-> "", warm |-> FALSE]
StageIdle == [run |-> 0, retries |-> 0, todo |-> {}, seen_keys |-> {},
              results |-> {}, site |-> [u \in ProductURLs |-> "pageA"],
              stored |-> <<>>]
InitStage == st = StageIdle /\ tk = TaskIdle

\* the values of --max-workers and --retries the pipeline is run with
WorkerCounts == {1, 2}
PoolRetries == {0, 1}
\* what a page request of a task may end in
PoolOutcomes == {"ok", "fail", "parse_error"}
PoolIdle == PoolBegin(1, 0)
InitPool == po = PoolIdle
\* the pipeline is run twice on the same site: under the configured
\* exclusion list ("E") and under that list plus one prefix ("Eplus")
Runs == {"E", "Eplus"}
ExtraPrefixes == {<<"produkter", "rea">>, <<"produkter", "bord", "matbord">>,
                  <<"produkter", "bord", "p2">>}
\* main() of scraper/backend.py, run_scraper_pipeline() of main.py
Pipelines == {"backend", "main"}
\* the three implementations of the per-category URL collector
Collectors == {"product", "enhanced", "legacy"}
\* the mega menus of the site
Menus ==
    {<<Li("/produkter/bord/", <<Li("/produkter/bord/matbord/", <<>>)>>),
       Li("/produkter/container/", <<Li("/produkter/container/small/", <<>>)>>),
       Li("/produkter/rea/", <<>>),
       Li("/om-oss/", <<>>)>>,
     <<Li("/produkter/bord/", <<Li("/produkter/bord/matbord/", <<>>)>>),
       Li("/produkter/rea/", <<>>),
       Li("", <<>>)>>,
     <<Li("/produkter/rea/", <<Li("/produkter/bord/", <<>>),
                               Li("/produkter/container/small/", <<>>)>>)>>}
WalkCategories == {CatBord, CatMatbord, CatContainer, CatContainerSmall, CatRea}

\* the answers of the site to requests.get(BASE_URL): the page with the
\* mega menu, an error status with a body that has no menu, no answer
HomeOutcomes == {"nav", "HTTPError", "ConnectionError"}
\* the paging of a category that has a second page: the second page is the
\* last one, every page has products and a "next" link, or the "next" link
\* of the second page leads back to the first
Pagings == {"ends", "every", "cycle"}
\* the page numbers told apart: the pages from MaxPages on are alike
MaxPages == 3

RunIdle == [pc |-> "start", tree |-> <<>>, todo |-> <<>>, product_urls |-> {},
            extracted |-> {}, requested |-> {}, exc |-> ""]
\* odd: the parity of the number of page requests the collector has sent
CollectorIdle == [impl |-> "", category_url |-> "", pc |-> "idle", page |-> 1,
                  product_urls |-> {}, requested |-> {}, odd |-> FALSE]
WalkBegin(menu, pipeline, extra, next_links, home, paging) ==
    [menu |-> menu, pipeline |-> pipeline, extra |-> extra,
     next_links |-> next_links, home |-> home, paging |-> paging,
     run |-> [r \in Runs |-> RunIdle], co |-> CollectorIdle]
WalkIdle == WalkBegin(<<>>, "backend", <<"produkter", "rea">>, {}, "nav", "ends")
InitWalk == wa = WalkIdle

(***************************************************************************)
(* The QC gate: scraper/scanner.py, exporter/qc.py and the text helpers    *)
(* of scraper/utils.py. A text is the sequence of its characters; a field  *)
(* of a product dict holds a str, None, or is absent from the dict.        *)
(***************************************************************************)
QStr(chars) == [ty |-> "str", chars |-> chars]
QNone == [ty |-> "NoneType", chars |-> <<>>]
QAbsent == [ty |-> "absent", chars |-> <<>>]

QcFields == {"Namn", "Artikelnummer", "Pris inkl. moms (värde)", "Produkt-URL",
             "Produktbild-URL", "Kategori (parent)"}

\* product.get(field, default)
dict_get(product, field, default) ==
    IF product[field].ty = "absent" THEN default ELSE product[field]

\* str(value)
py_str(v) == IF v.ty = "NoneType" THEN <<"N", "o", "n", "e">> ELSE v.chars

\* truth value of product.get(field): None and "" are false
q_truthy(v) == v.ty = "str" /\ v.chars # <<>>

IsSpace(c) == c \in {" ", "\t"}

RECURSIVE lstrip(_)
lstrip(s) == IF s # <<>> /\ IsSpace(Head(s)) THEN lstrip(Tail(s)) ELSE s
RECURSIVE rstrip(_)
rstrip(s) == IF s # <<>> /\ IsSpace(s[Len(s)]) THEN rstrip(SubSeq(s, 1, Len(s) - 1)) ELSE s
\* text.strip()
strip(s) == rstrip(lstrip(s))

\* re.sub(r'\s+', ' ', text)
RECURSIVE sub_spaces(_)
sub_spaces(s) ==
    IF s = <<>> THEN <<>>
    ELSE IF IsSpace(Head(s)) THEN <<" ">> \o sub_spaces(lstrip(s))
         ELSE <<Head(s)>> \o sub_spaces(Tail(s))

\* normalize_whitespace(text)
normalize_whitespace(text) == IF text = <<>> THEN <<>> ELSE strip(sub_spaces(text))

\* c.lower()
lower(c) ==
    CASE c = "A" -> "a" [] c = "B" -> "b" [] c = "S" -> "s"
      [] c = "Ö" -> "ö" [] c = "É" -> "é"
      [] OTHER -> c

\* .replace("å", "a").replace("ä", "a").replace("ö", "o")
swedish(c) == CASE c \in {"å", "ä"} -> "a" [] c = "ö" -> "o" [] OTHER -> c

\* unicodedata.normalize("NFKD", c).encode("ascii", "ignore").decode("ascii"):
\* a letter with a mark keeps its base letter, any other non-ASCII
\* character is dropped
ascii_fold(c) ==
    CASE c = "é" -> <<"e">>
      [] c = "É" -> <<"E">>
      [] c = "ß" -> <<>>
      [] OTHER -> <<c>>

RECURSIVE fold_text(_)
fold_text(s) ==
    IF s = <<>> THEN <<>>
    ELSE ascii_fold(swedish(lower(Head(s)))) \o fold_text(Tail(s))

\* normalize_text(text)
normalize_text(text) == IF text = <<>> THEN <<>> ELSE strip(fold_text(text))

\* the characters of a string literal of the source, for the fixed texts below
chars_of(word) ==
    CASE word = "None" -> <<"N", "o", "n", "e">>
      [] word = "0" -> <<"0">>
      [] word = "http" -> <<"h", "t", "t", "p">>
      [] word = "placeholder.png" -> <<"p", "l", "a", "c", "e", "h", "o", "l", "d", "e", "r", ".", "p", "n", "g">>
      [] OTHER -> <<>>

\* text.endswith(suffix)
endswith(text, suffix) ==
    Len(text) >= Len(suffix)
    /\ SubSeq(text, Len(text) - Len(suffix) + 1, Len(text)) = suffix

DigitOrder == <<"0", "1", "2", "3", "4", "5", "6", "7", "8", "9">>
IsDigit(c) == c \in Digits
DigitValue(c) == (CHOOSE d \in 1..Len(DigitOrder) : DigitOrder[d] = c) - 1

RECURSIVE digits_value(_)
digits_value(s) ==
    IF s = <<>> THEN 0 ELSE 10 * digits_value(SubSeq(s, 1, Len(s) - 1)) + DigitValue(s[Len(s)])

\* float(text.replace(",", ".")) for the texts of the model: a run of digits,
\* with blanks around it, is its number; "", "None" and every other text of
\* letters raise ValueError
to_float(text) ==
    LET t == strip(text)
    IN IF t # <<>> /\ \A i \in 1..Len(t) : IsDigit(t[i])
       THEN [ok |-> TRUE, value |-> digits_value(t)]
       ELSE [ok |-> FALSE, value |-> 0]

AsciiLetters ==
    {"A", "B", "C", "D", "E", "F", "G", "H", "I", "J", "K", "L", "M",
     "N", "O", "P", "Q", "R", "S", "T", "U", "V", "W", "X", "Y", "Z",
     "a", "b", "c", "d", "e", "f", "g", "h", "i", "j", "k", "l", "m",
     "n", "o", "p", "q", "r", "s", "t", "u", "v", "w", "x", "y", "z"}

\* re.match(r"^[A-Za-z0-9\- ]+$", sku)
sku_pattern(sku) ==
    /\ sku # <<>>
    /\ \A i \in 1..Len(sku) :
         sku[i] \in AsciiLetters \cup {"-", " "} \/ IsDigit(sku[i])

REQUIRED_FIELDS ==
    <<"Namn", "Artikelnummer", "Pris inkl. moms (värde)", "Produkt-URL", "Produktbild-URL">>

\* the error lists are sequences of messages
missing_errors(product, required_fields) ==
    LET missing(i) == strip(py_str(dict_get(product, required_fields[i], QStr(<<>>)))) = <<>>
        hit == SelectSeq([i \in 1..Len(required_fields) |-> i], missing)
    IN [k \in 1..Len(hit) |-> "Missing: " \o required_fields[hit[k]]]

\* validate_product(product, required_fields); required_fields <<>> stands
\* for the default None. Of the four category fields the products of the
\* model carry "Kategori (parent)" only.
validate_product(product, required_fields) ==
    LET required == IF required_fields = <<>> THEN REQUIRED_FIELDS ELSE required_fields
        price == to_float(py_str(dict_get(product, "Pris inkl. moms (värde)", QStr(chars_of("0")))))
        sku == py_str(dict_get(product, "Artikelnummer", QStr(<<>>)))
        img == py_str(dict_get(product, "Produktbild-URL", QStr(<<>>)))
        url == py_str(dict_get(product, "Produkt-URL", QStr(<<>>)))
        namn == py_str(dict_get(product, "Namn", QStr(<<>>)))
    IN missing_errors(product, required)
       \o (IF ~price.ok THEN <<"Price is not a number">>
           ELSE IF price.value <= 0 THEN <<"Price must be positive">> ELSE <<>>)
       \o (IF sku # <<>> /\ ~sku_pattern(sku)
           THEN <<"Artikelnummer (SKU) may have invalid characters">> ELSE <<>>)
       \o (IF img = <<>> \/ strip(img) = <<>> \/ endswith(img, chars_of("placeholder.png"))
           THEN <<"Missing or placeholder product image">> ELSE <<>>)
       \o (IF ~q_truthy(dict_get(product, "Kategori (parent)", QNone))
           THEN <<"Missing category">> ELSE <<>>)
       \o (IF url # <<>> /\ ~startswith(url, chars_of("http"))
           THEN <<"Invalid product URL">> ELSE <<>>)
       \o (IF namn # <<>> /\ Len(namn) < 3
           THEN <<"Suspiciously short product name">> ELSE <<>>)

\* np.median(values), doubled so that the mean of the two middle values of
\* an even count stays an integer
median2(values) ==
    LET s == SortSeq(values, LAMBDA a, b : a < b)
        n == Len(s)
    IN IF n % 2 = 1 THEN 2 * s[(n + 1) \div 2] ELSE s[n \div 2] + s[n \div 2 + 1]

Abs_of_nothing(n) == n
Abs(n) == IF n < 0 THEN 0 - n ELSE n

\* detect_anomalies(products, field, z_thresh): the sequence of
\* (index, value) of the outliers, indexes from 0; z_thresh in tenths.
\* With diff2 = 2 * |v - median| and mad4 = 4 * MAD the test
\* abs(0.6745 * (v - median) / mad) > z_thresh is
\* 6745 * 2 * diff2 > 1000 * z_tenths * mad4.
detect_anomalies(products, field, z_tenths) ==
    LET parsed(i) == to_float(py_str(dict_get(products[i], field, QStr(<<>>))))
        idx_map == SelectSeq([i \in 1..Len(products) |-> i], LAMBDA i : parsed(i).ok)
        values == [k \in 1..Len(idx_map) |-> parsed(idx_map[k]).value]
    IN IF Len(values) < 3 THEN <<>>
       ELSE LET median == median2(values)
                diff2 == [k \in 1..Len(values) |-> Abs(2 * values[k] - median)]
                mad4 == median2(diff2)
                out == SelectSeq([k \in 1..Len(values) |-> k],
                                 LAMBDA k : 6745 * 2 * diff2[k] > 1000 * z_tenths * mad4)
            IN IF mad4 = 0 THEN <<>>
               ELSE [k \in 1..Len(out) |-> [idx |-> idx_map[out[k]] - 1, val |-> values[out[k]]]]

\* prod.get("Artikelnummer") or prod.get("Produkt-URL") or f"idx_{i}"
scan_key(prod, i) ==
    IF q_truthy(prod["Artikelnummer"]) THEN prod["Artikelnummer"].chars
    ELSE IF q_truthy(prod["Produkt-URL"]) THEN prod["Produkt-URL"].chars
    ELSE <<"idx_", ToString(i)>>

\* prod.get("Artikelnummer") or f"idx_{idx}"
qc_key(prod, idx) ==
    IF q_truthy(prod["Artikelnummer"]) THEN prod["Artikelnummer"].chars ELSE <<"idx_", ToString(idx)>>

\* a dict of error lists is a set of [key, errs] entries, one per key
dict_has(d, key) == \E e \in d : e.key = key
dict_at(d, key) == (CHOOSE e \in d : e.key = key).errs
\* d[key] = errs
dict_set(d, key, errs) == {e \in d : e.key # key} \cup {[key |-> key, errs |-> errs]}
\* d.setdefault(key, []).append(msg)
dict_setdefault_append(d, key, msg) ==
    dict_set(d, key, (IF dict_has(d, key) THEN dict_at(d, key) ELSE <<>>) \o <<msg>>)

\* f"{anomaly_field} outlier: {val}", val a float
outlier_msg(anomaly_field, val) == anomaly_field \o " outlier: " \o ToString(val) \o ".0"

RECURSIVE scan_loop(_, _, _, _, _)
\* the for loop of scan_products over products[i..]
scan_loop(products, required_fields, i, filtered, product_errors) ==
    IF i > Len(products) THEN [filtered |-> filtered, product_errors |-> product_errors]
    ELSE LET prod == products[i]
             errs == validate_product(prod, required_fields)
             key == scan_key(prod, i - 1)
         IN IF errs # <<>>
            THEN scan_loop(products, required_fields, i + 1, filtered,
                           dict_set(product_errors, key, errs))
            ELSE scan_loop(products, required_fields, i + 1, Append(filtered, prod),
                           product_errors)

RECURSIVE outlier_loop(_, _, _, _, _)
\* the for loop of scan_products over the outliers
outlier_loop(products, anomaly_field, outliers, k, product_errors) ==
    IF k > Len(outliers) THEN product_errors
    ELSE LET idx == outliers[k].idx
             key == scan_key(products[idx + 1], idx)
         IN outlier_loop(products, anomaly_field, outliers, k + 1,
                         dict_setdefault_append(product_errors, key,
                                                outlier_msg(anomaly_field, outliers[k].val)))

\* scan_products(products, required_fields, anomaly_field, anomaly_z)
scan_products(products, required_fields, anomaly_field, anomaly_z_tenths) ==
    LET looped == scan_loop(products, required_fields, 1, <<>>, {})
        outliers == detect_anomalies(products, anomaly_field, anomaly_z_tenths)
    IN [filtered |-> looped.filtered,
        product_errors |-> outlier_loop(products, anomaly_field, outliers, 1,
                                        looped.product_errors)]

RECURSIVE validate_products_with_scanner(_, _, _, _)
\* validate_products_with_scanner(products, required_fields), its loop over
\* products[i..] with the dict built so far
validate_products_with_scanner(products, required_fields, i, errors) ==
    IF i > Len(products) THEN errors
    ELSE LET issues == validate_product(products[i], required_fields)
         IN validate_products_with_scanner(products, required_fields, i + 1,
                IF issues # <<>> THEN dict_set(errors, qc_key(products[i], i - 1), issues)
                ELSE errors)

\* the key tuple of deduplicate_products in exporter/qc.py
dedup_key(prod, key_fields) ==
    [f \in 1..Len(key_fields) |->
        normalize_text(normalize_whitespace(py_str(dict_get(prod, key_fields[f], QStr(<<>>)))))]

RECURSIVE dedup_loop(_, _, _, _)
dedup_loop(products, key_fields, seen, deduped) ==
    IF products = <<>> THEN deduped
    ELSE LET key == dedup_key(Head(products), key_fields)
         IN IF key \notin seen
            THEN dedup_loop(Tail(products), key_fields, seen \cup {key},
                            Append(deduped, Head(products)))
            ELSE dedup_loop(Tail(products), key_fields, seen, deduped)

\* deduplicate_products(products, key_fields) of exporter/qc.py; key_fields
\* <<>> stands for the default None
deduplicate_products(products, key_fields) ==
    dedup_loop(products, IF key_fields = <<>> THEN <<"Namn", "Artikelnummer">> ELSE key_fields,
               {}, <<>>)

\* the key tuple of the older deduplicate_products: the raw field values
legacy_dedup_key(prod, key_fields) ==
    [f \in 1..Len(key_fields) |-> dict_get(prod, key_fields[f], QStr(<<>>))]

RECURSIVE legacy_dedup_loop(_, _, _, _)
legacy_dedup_loop(products, key_fields, seen, deduped) ==
    IF products = <<>> THEN deduped
    ELSE LET key == legacy_dedup_key(Head(products), key_fields)
         IN IF key \notin seen
            THEN legacy_dedup_loop(Tail(products), key_fields, seen \cup {key},
                                   Append(deduped, Head(products)))
            ELSE legacy_dedup_loop(Tail(products), key_fields, seen, deduped)

\* deduplicate_products(products, key_fields) of
\* table_se_scraper_backend_enhanced.py
legacy_deduplicate_products(products, key_fields) ==
    legacy_dedup_loop(products,
                      IF key_fields = <<>> THEN <<"Namn", "Artikelnummer">> ELSE key_fields,
                      {}, <<>>)

\* check_field_completeness(products, required_fields); <<>> stands for None
check_field_completeness(products, required_fields) ==
    LET required == IF required_fields = <<>>
                    THEN <<"Namn", "Artikelnummer", "Pris inkl. moms (värde)", "Produkt-URL">>
                    ELSE required_fields
        lacks(prod) == \E f \in 1..Len(required) :
                          normalize_whitespace(py_str(dict_get(prod, required[f], QStr(<<>>)))) = <<>>
    IN SelectSeq(products, lacks)

\* p in products
list_contains(products, p) == \E i \in 1..Len(products) : products[i] = p

\* qc_and_export_to_xlsx(products, filename, error_filename): the valid
\* list handed to export_to_xlsx and the list handed to
\* export_errors_to_xlsx
qc_and_export_to_xlsx(products, error_filename) ==
    LET deduped == deduplicate_products(products, <<>>)
        incomplete == check_field_completeness(deduped, <<>>)
    IN [valid |-> SelectSeq(deduped, LAMBDA p : ~list_contains(incomplete, p)),
        errors |-> IF error_filename /\ incomplete # <<>> THEN incomplete ELSE <<>>]

\* the characters of the model's names in the order of their code points
CodePoints == <<" ", "B", "S", "a", "b", "d", "k", "l", "o", "r", "s", "t", "Ö", "ö">>
\* ord(c)
ord(c) == CHOOSE n \in 1..Len(CodePoints) : CodePoints[n] = c

RECURSIVE str_lt(_, _)
\* a < b for two str values
str_lt(a, b) ==
    IF b = <<>> THEN FALSE
    ELSE IF a = <<>> THEN TRUE
    ELSE IF Head(a) = Head(b) THEN str_lt(Tail(a), Tail(b))
    ELSE ord(Head(a)) < ord(Head(b))

\* text.lower()
str_lower(text) == [i \in 1..Len(text) |-> lower(text[i])]

RECURSIVE insort(_, _, _)
\* index i put into the sorted index list after every index whose key is
\* not greater
insort(order, i, keys) ==
    IF order = <<>> THEN <<i>>
    ELSE IF str_lt(keys[i], keys[Head(order)]) THEN <<i>> \o order
    ELSE <<Head(order)>> \o insort(Tail(order), i, keys)

RECURSIVE sort_order(_, _)
\* the indexes 1..n in ascending order of their keys, ties in list order
sort_order(n, keys) ==
    IF n = 0 THEN <<>> ELSE insort(sort_order(n - 1, keys), n, keys)

\* sorted(data, key=...), keys[i] the key of data[i]: ascending and stable
sorted(data, keys) == [k \in 1..Len(data) |-> data[sort_order(Len(data), keys)[k]]]

\* x.get(sort_key, "") is None for some record: None.lower() raises
\* AttributeError, and comparing None with another key raises TypeError
none_key(data, sort_key) ==
    \E i \in 1..Len(data) : dict_get(data[i], sort_key, QStr(<<>>)).ty = "NoneType"

\* sort_products(data, sort_key): key=lambda x: x.get(sort_key, ""); the
\* list it returns, none when the comparison of the keys raises
sort_products(data, sort_key) ==
    IF Len(data) > 1 /\ none_key(data, sort_key) THEN <<>>
    ELSE sorted(data, [i \in 1..Len(data) |-> dict_get(data[i], sort_key, QStr(<<>>)).chars])

\* the rows export_to_csv and export_to_xlsx write to the file, in order;
\* none for no data and when the sort raises inside the try block
export_rows(data, sort_key) ==
    IF data = <<>> \/ none_key(data, sort_key) THEN <<>>
    ELSE sorted(data, [i \in 1..Len(data) |->
                          str_lower(dict_get(data[i], sort_key, QStr(<<>>)).chars)])

\* the products main() of scraper/backend.py writes to args.output, in
\* order: filtered_products as scan_products returned them
main_rows(products) == scan_products(products, <<>>, "Pris inkl. moms (värde)", 35).filtered

\* The products handed to the QC gate. Good is a product every check
\* accepts; each other product differs from it in the fields named.
Text_Bord == <<"B", "o", "r", "d">>
Text_ProductURL == <<"h", "t", "t", "p", "s", ":", "/", "/", "t", "/", "1">>
Text_ImageURL == <<"h", "t", "t", "p", "s", ":", "/", "/", "t", "/", "i">>

Good ==
    [f \in QcFields |->
        CASE f = "Namn" -> QStr(Text_Bord)
          [] f = "Artikelnummer" -> QStr(<<"1", "2", "3">>)
          [] f = "Pris inkl. moms (värde)" -> QStr(<<"1", "0">>)
          [] f = "Produkt-URL" -> QStr(Text_ProductURL)
          [] f = "Produktbild-URL" -> QStr(Text_ImageURL)
          [] f = "Kategori (parent)" -> QStr(Text_Bord)]

With(product, field, value) == [product EXCEPT ![field] = value]

\* the same name and SKU as Good up to case, marks and blanks
SameKey ==
    With(With(Good, "Namn", QStr(<<" ", "b", "Ö", "r", "d", " ">>)),
         "Pris inkl. moms (värde)", QStr(<<"1", "1">>))
Expensive ==
    With(With(With(Good, "Namn", QStr(<<"S", "t", "o", "l">>)),
              "Artikelnummer", QStr(<<"1", "2", "4">>)),
         "Pris inkl. moms (värde)", QStr(<<"1", "0", "0", "0">>))
NoneName == With(With(Good, "Namn", QNone), "Artikelnummer", QStr(<<"1", "2", "5">>))
NoneSku == With(Good, "Artikelnummer", QNone)
NonePrice == With(With(Good, "Pris inkl. moms (värde)", QNone), "Artikelnummer", QStr(<<"1", "2", "6">>))
EmptyName == With(Good, "Namn", QStr(<<>>))
EmptyUrl == With(Good, "Produkt-URL", QStr(<<>>))
AbsentPrice == With(With(Good, "Pris inkl. moms (värde)", QAbsent), "Artikelnummer", QStr(<<"1", "2", "7">>))
Dear ==
    With(With(With(Good, "Namn", QStr(<<"a", "s", "k">>)),
              "Artikelnummer", QStr(<<"1", "2", "8">>)),
         "Pris inkl. moms (värde)", QStr(<<"1", "0", "0", "1">>))

QcProducts ==
    {Good, SameKey, Expensive, NoneName, NoneSku, NonePrice, EmptyName, EmptyUrl, AbsentPrice,
     Dear}

MaxRecords == 3

QcLists == UNION {[1..n -> QcProducts] : n \in 0..MaxRecords}

Dedups == {"qc", "legacy"}

\* the gate before a call: the list it is handed and nothing computed yet
QcBegin(pc, products) ==
    [pc |-> pc, products |-> products, dedup |-> "qc",
     deduped |-> <<>>, twice |-> <<>>,
     filtered |-> <<>>, product_errors |-> {}, outliers |-> <<>>, rows |-> <<>>,
     error_filename |-> FALSE, valid |-> <<>>, errors |-> <<>>]

QcIdle == QcBegin("idle", <<>>)

InitQC == qc = QcIdle

\* what the disk may answer to a write
DiskOutcomes == {"ok", "ENOSPC"}
EntryPoints == {"scraper/backend.py", "main.py"}

\* Cache.save_cache(cache) on a disk that answers `disk`: an OSError of the
\* write is caught by `except Exception` and logged, the cache file is left
\* as it was, and the call returns as it does after a write
save_cache_on(files, cache, disk) == IF disk = "ok" THEN save_cache(files, cache) ELSE files

\* Cache.set(key, data, content_hash) on a disk that answers `disk`
Cache_set_on(files, key, data, content_hash, disk) ==
    IF set_rejects(key) THEN files
    ELSE save_cache_on(after_load(files),
                       set_item(load_cache(files.cache).cache, key, data, content_hash), disk)

\* a run at the start of its scraping: the URLs it has to process, the
\* failed writes so far, the output file and the exit status (-1: running)
ProgramBegin(pc, entry, todo) ==
    [pc |-> pc, entry |-> entry, todo |-> todo, save_failed |-> 0, write_failed |-> FALSE,
     written |-> FALSE, traceback |-> FALSE, exit |-> 0 - 1]

ProgramIdle == ProgramBegin("idle", "main.py", {})
InitProgram == rn = ProgramIdle

InitFiles == fs = [n \in FileNames |-> NoFile]
InitCalls == last = NoCall /\ prev = NoCall
InitWorkers == wk = [w \in Workers |-> WorkerIdle]
InitFetch == ft = FetchIdle

(***************************************************************************)
(* The cache API called by one caller at a time.                           *)
(***************************************************************************)
Returned(call) ==
    /\ last' = call
    /\ prev' = IF last.op = "set" THEN last ELSE NoCall
    /\ UNCHANGED <<concVars, fetchVars, stageVars, poolVars, walkVars, qcVars, runVars>>

DoSet ==
    \E k \in Keys \cup {""}, v \in Payloads, h \in Hashes :
        /\ fs' = Cache_set(fs, k, v, PyStr(h))
        /\ Returned(Call("set", k, PyStr(h), v, PyNone))

DoGet ==
    \E k \in Keys \cup {""}, h \in HashArgs :
        /\ fs' = after_load(fs)
        /\ Returned(Call("get", k, h, PyNone, Cache_get(fs, k, h)))

DoExists ==
    \E k \in Keys \cup {""}, h \in HashArgs :
        /\ fs' = after_load(fs)
        /\ Returned(Call("exists", k, h, PyNone, PyBool(Cache_exists(fs, k, h))))

DoInvalidate ==
    \E k \in Keys :
        /\ fs' = Cache_invalidate(fs, k)
        /\ Returned(Call("invalidate", k, PyNone, PyNone, PyNone))

\* The cache file is replaced by garbage from outside the program.
Corrupt ==
    \E g \in Garbage :
        /\ fs' = [fs EXCEPT !.cache = File(g)]
        /\ Returned(Call("corrupt", "", PyNone, PyNone, PyNone))

InitCache ==
    /\ InitFiles /\ InitCalls /\ InitWorkers /\ InitFetch /\ InitStage
    /\ InitPool /\ InitWalk /\ InitQC /\ InitProgram
NextCache == DoSet \/ DoGet \/ DoExists \/ DoInvalidate \/ Corrupt
SpecCache == InitCache /\ [][NextCache]_vars

Parses(bytes) == utf8_ok(bytes) /\ json_ok(bytes)

(***************************************************************************)
(* C4. Corruption recovery: whenever the cache file exists but cannot be   *)
(* parsed, a load (here: the one of get or exists) copies it to            *)
(* filename + ".corrupt" and sees an empty cache, so the call returns      *)
(* nothing found.                                                          *)
(***************************************************************************)
C4_CorruptionRecovery ==
    (/\ last.op \in {"get", "exists"}
     /\ fs.cache.exists /\ ~Parses(fs.cache.bytes))
    => /\ fs.corrupt = fs.cache
       /\ ~Truthy(last.ret)

(***************************************************************************)
(* C5. Cache.set with the empty string as key stores nothing and leaves    *)
(* the files as they were.                                                 *)
(***************************************************************************)
C5_EmptyKeyRejected ==
    [][(last'.op = "set" /\ last'.key = "") => fs' = fs]_vars

C5_Witness ==
    /\ last.op = "set" /\ last.key = ""
    /\ DOMAIN load_cache(fs.cache).cache # {}

(***************************************************************************)
(* Cache.set and Cache.get called from worker threads: the steps of one    *)
(* call interleave with the steps of the other workers' calls.             *)
(***************************************************************************)
\* os.replace(src, dst)
os_replace(files, src, dst) ==
    IF src = dst THEN files
    ELSE [files EXCEPT ![dst] = files[src], ![src] = NoFile]

\* whether a worker other than w has written a part of its temporary file
MidWrite(w) ==
    \E v \in Workers \ {w} :
        /\ wk[v].pc = "save_write" /\ wk[v].todo # <<>>
        /\ fs[tempname(v)].bytes # <<>>

\* Cache.set is entered: an empty key returns at once.
ConcSetCall(w) ==
    /\ wk[w].pc = "idle" /\ wk[w].ops < MaxOps
    /\ \E k \in WorkerKeys \cup {""} :
          wk' = [wk EXCEPT ![w].key = k,
                           ![w].ops = @ + 1,
                           ![w].pc = IF set_rejects(k) THEN "idle" ELSE "set_load"]
    /\ UNCHANGED <<fs, cacheVars, fetchVars, stageVars, poolVars, walkVars, qcVars, runVars>>

\* cache = self.load_cache(); cache[key] = {...}
ConcSetLoad(w) ==
    /\ wk[w].pc = "set_load"
    /\ fs' = after_load(fs)
    /\ wk' = [wk EXCEPT ![w].observed = fs.cache,
                        ![w].racing = MidWrite(w),
                        ![w].cache = set_item(load_cache(fs.cache).cache,
                                              wk[w].key, PyStr(w), PyStr("h1")),
                        ![w].pc = "save_open"]
    /\ UNCHANGED <<cacheVars, fetchVars, stageVars, poolVars, walkVars, qcVars, runVars>>

\* save_cache: tempfile.NamedTemporaryFile('w', delete=False)
ConcSaveOpen(w) ==
    /\ wk[w].pc = "save_open"
    /\ fs' = [fs EXCEPT ![tempname(w)] = File(<<>>)]
    /\ wk' = [wk EXCEPT ![w].todo = json_dump(wk[w].cache), ![w].pc = "save_write"]
    /\ UNCHANGED <<cacheVars, fetchVars, stageVars, poolVars, walkVars, qcVars, runVars>>

\* save_cache: json.dump writes the text piece by piece
ConcSaveWrite(w) ==
    /\ wk[w].pc = "save_write" /\ wk[w].todo # <<>>
    /\ fs' = [fs EXCEPT ![tempname(w)].bytes = Append(@, Head(wk[w].todo))]
    /\ wk' = [wk EXCEPT ![w].todo = Tail(@)]
    /\ UNCHANGED <<cacheVars, fetchVars, stageVars, poolVars, walkVars, qcVars, runVars>>

\* save_cache: os.replace(tempname, self.filename); Cache.set returns
ConcSaveReplace(w) ==
    /\ wk[w].pc = "save_write" /\ wk[w].todo = <<>>
    /\ fs' = os_replace(fs, tempname(w), "cache")
    /\ wk' = [wk EXCEPT ![w].stored = @ \cup {wk[w].key}, ![w].pc = "idle"]
    /\ UNCHANGED <<cacheVars, fetchVars, stageVars, poolVars, walkVars, qcVars, runVars>>

\* Cache.get: one load_cache and a look-up
ConcGet(w) ==
    /\ wk[w].pc = "idle" /\ wk[w].ops < MaxOps
    /\ fs' = after_load(fs)
    /\ wk' = [wk EXCEPT ![w].observed = fs.cache,
                        ![w].racing = MidWrite(w),
                        ![w].ops = @ + 1]
    /\ UNCHANGED <<cacheVars, fetchVars, stageVars, poolVars, walkVars, qcVars, runVars>>

InitConc ==
    /\ InitFiles /\ InitCalls /\ InitWorkers /\ InitFetch /\ InitStage
    /\ InitPool /\ InitWalk /\ InitQC /\ InitProgram
NextConc ==
    \E w \in Workers :
        \/ ConcSetCall(w)
        \/ ConcSetLoad(w)
        \/ ConcSaveOpen(w)
        \/ ConcSaveWrite(w)
        \/ ConcSaveReplace(w)
        \/ ConcGet(w)
SpecConc == InitConc /\ [][NextConc]_vars

(***************************************************************************)
(* C1. Concurrent Cache.set calls are serialized: once every worker's call *)
(* has returned, the persisted cache holds every key a worker has set.     *)
(***************************************************************************)
C1_NoLostUpdate ==
    (\A w \in Workers : wk[w].pc = "idle")
    => \A w \in Workers : wk[w].stored \subseteq DOMAIN load_cache(fs.cache).cache

(***************************************************************************)
(* C3. Readers never observe a partial file: what any load has read is     *)
(* either no file or a complete cache text.                                *)
(***************************************************************************)
C3_NoPartialRead ==
    \A w \in Workers : wk[w].observed.exists => Parses(wk[w].observed.bytes)

\* a load that ran while another worker was in the middle of writing its file
C3_Witness ==
    \E w \in Workers :
        /\ wk[w].racing
        /\ wk[w].observed.exists
        /\ DOMAIN load_cache(wk[w].observed).cache # {}

(***************************************************************************)
(* One fetch_url call after another, for every max_retries.                *)
(***************************************************************************)
FetchCall ==
    /\ ft.pc \in {"idle", "returned", "raised"}
    /\ \E m \in 0..MaxRetries : ft' = fetch_begin(m)
    /\ UNCHANGED <<fs, cacheVars, concVars, stageVars, poolVars, walkVars, qcVars, runVars>>

FetchAttempt ==
    /\ ft.pc = "loop" /\ loop_continues(ft)
    /\ \E o \in Outcomes : ft' = fetch_attempt(ft, o)
    /\ UNCHANGED <<fs, cacheVars, concVars, stageVars, poolVars, walkVars, qcVars, runVars>>

FetchGiveUp ==
    /\ ft.pc = "loop" /\ ~loop_continues(ft)
    /\ ft' = fetch_give_up(ft)
    /\ UNCHANGED <<fs, cacheVars, concVars, stageVars, poolVars, walkVars, qcVars, runVars>>

InitFetchSpec ==
    /\ InitFiles /\ InitCalls /\ InitWorkers /\ InitFetch /\ InitStage
    /\ InitPool /\ InitWalk /\ InitQC /\ InitProgram
NextFetch == FetchCall \/ FetchAttempt \/ FetchGiveUp
SpecFetch == InitFetchSpec /\ [][NextFetch]_vars

\* the first attempt of the log that succeeded
FirstSuccess(log) ==
    CHOOSE i \in 1..Len(log) :
        /\ attempt_exc(log[i]) = NoExc
        /\ \A j \in 1..(i - 1) : attempt_exc(log[j]) # NoExc

(***************************************************************************)
(* C8. For any max_retries one fetch_url call makes at most max_retries    *)
(* attempts, returns the text of the first successful response, and when   *)
(* every attempt has failed raises a network error: the error of the last  *)
(* attempt (its HTTP status or its transport exception).                   *)
(***************************************************************************)
C8_FetchContract ==
    /\ ft.calls <= ft.max_retries
    /\ ft.pc = "returned" => ft.text = ft.log[FirstSuccess(ft.log)].text
    /\ ft.pc = "raised" =>
          /\ ft.log # <<>>
          /\ ft.error = attempt_exc(ft.log[Len(ft.log)])
          /\ ft.error.exc \in {"HTTPError", "ConnectionError", "Timeout"}

RetryStatuses == {429, 500, 502, 503, 504}

\* what the retry policy allows another attempt after
Retryable(o) ==
    \/ o.kind \in {"ConnectionError", "Timeout"}
    \/ o.kind = "response" /\ o.status \in RetryStatuses

(***************************************************************************)
(* C9. An attempt is followed by another attempt only when it ended in a   *)
(* connection failure, a timeout or a status in {429, 500, 502, 503, 504}: *)
(* a response with another 4xx status is never followed by an attempt.     *)
(***************************************************************************)
C9_RetryOnlyRetryable ==
    \A i \in 1..(Len(ft.log) - 1) : Retryable(ft.log[i])

(***************************************************************************)
(* scraper/backend.py: scrape_products with one worker, run after run on   *)
(* the same cache file. Each URL of a run is handed to process(url).       *)
(***************************************************************************)
StageFrame == UNCHANGED <<cacheVars, concVars, fetchVars, poolVars, walkVars, qcVars, runVars>>

\* what a request for `url` may end in
StageOutcomes(url) ==
    {Resp(200, st.site[url]), Resp(404, ""), Resp(503, ""),
     Transport("ConnectionError")}

\* main(): a run starts with the --retries it was given
RunStart ==
    /\ tk.pc = "idle" /\ st.todo = {} /\ st.run < MaxRuns
    /\ \E r \in 0..MaxStageRetries :
          st' = [st EXCEPT !.run = @ + 1, !.retries = r, !.todo = ProductURLs,
                           !.seen_keys = {}, !.results = {}]
    /\ UNCHANGED <<fs, tk>>
    /\ StageFrame

\* between two runs the site serves another page under a URL
SiteChange ==
    /\ tk.pc = "idle" /\ st.todo = {} /\ st.run < MaxRuns
    /\ \E u \in ProductURLs, h \in Htmls :
          /\ h # st.site[u]
          /\ st' = [st EXCEPT !.site[u] = h]
    /\ UNCHANGED <<fs, tk>>
    /\ StageFrame

\* executor.submit(process, url)
ProcessCall ==
    /\ tk.pc = "idle"
    /\ \E u \in st.todo :
          /\ tk' = [TaskIdle EXCEPT !.url = u, !.pc = "try"]
          /\ st' = [st EXCEPT !.todo = @ \ {u}]
    /\ UNCHANGED fs
    /\ StageFrame

\* whether the cache holds, for `url`, the HTML the site serves now and the
\* record parsed from it
WarmFor(url) ==
    LET html == st.site[url]
    IN /\ Cache_get(fs, url, PyNone) = PyStr(html)
       /\ Cache_exists(fs, only_digits(soup(html).sku), PyStr(hash_content(html)))

\* for attempt in range(retries + 1): if cache.exists(url): html = cache.get(url)
ProcTry ==
    /\ tk.pc = "try"
    /\ fs' = after_load(fs)
    /\ IF Cache_exists(fs, tk.url, PyNone)
       THEN tk' = [tk EXCEPT !.html = Cache_get(fs, tk.url, PyNone),
                             !.hit = WarmFor(tk.url),
                             !.pc = "scrape"]
       ELSE tk' = [tk EXCEPT !.f = fetch_begin(st.retries), !.pc = "fetch"]
    /\ UNCHANGED st
    /\ StageFrame

\* fetch_url(url, max_retries=retries): one pass of its loop
ProcFetchAttempt ==
    /\ tk.pc = "fetch" /\ loop_continues(tk.f)
    /\ \E o \in StageOutcomes(tk.url) :
          LET f2 == fetch_attempt(tk.f, o)
          IN tk' = [tk EXCEPT !.f = f2,
                              !.net = @ + 1,
                              !.fetch_calls = @ + 1,
                              !.html = IF f2.pc = "returned" THEN PyStr(f2.text) ELSE @,
                              !.pc = IF f2.pc = "returned" THEN "cache_set" ELSE @]
    /\ UNCHANGED <<fs, st>>
    /\ StageFrame

\* fetch_url raises; process catches it and goes on to its next attempt
ProcFetchRaise ==
    /\ tk.pc = "fetch" /\ ~loop_continues(tk.f)
    /\ tk' = [tk EXCEPT !.f = fetch_give_up(tk.f),
                        !.attempt = @ + 1,
                        !.pc = IF tk.attempt < st.retries THEN "try" ELSE "done"]
    /\ UNCHANGED <<fs, st>>
    /\ StageFrame

\* cache.set(url, html, Cache.hash_content(html))
ProcCacheSet ==
    /\ tk.pc = "cache_set"
    /\ fs' = Cache_set(fs, tk.url, tk.html, PyStr(hash_content(tk.html.s)))
    /\ tk' = [tk EXCEPT !.pc = "scrape"]
    /\ UNCHANGED st
    /\ StageFrame

\* product = scrape_product(url); if not product: return None
ProcScrape ==
    /\ tk.pc = "scrape"
    /\ \E o \in StageOutcomes(tk.url) :
          LET r == scrape_product(fs, tk.url, o)
          IN /\ fs' = r.files
             /\ tk' = [tk EXCEPT !.product = r.ret,
                                 !.net = @ + r.requests,
                                 !.sku = r.sku,
                                 !.warm = r.warm,
                                 !.pc = IF Truthy(r.ret) THEN "dedup" ELSE "done"]
             /\ st' = IF r.stored
                      THEN [st EXCEPT !.stored =
                              [k \in DOMAIN st.stored \cup {r.sku} |->
                                  IF k = r.sku THEN [hash |-> r.hash, ret |-> r.ret]
                                  ELSE st.stored[k]]]
                      ELSE st
    /\ StageFrame

\* key = (sku, url); if key in seen_keys: return None; seen_keys.add(key)
ProcDedup ==
    /\ tk.pc = "dedup"
    /\ LET key == <<dedup_sku(tk.product, tk.url), tk.url>>
       IN IF key \in st.seen_keys
          THEN /\ tk' = [tk EXCEPT !.pc = "done"]
               /\ UNCHANGED st
          ELSE /\ tk' = [tk EXCEPT !.ret = tk.product, !.pc = "done"]
               /\ st' = [st EXCEPT !.seen_keys = @ \cup {key}]
    /\ UNCHANGED fs
    /\ StageFrame

\* prod = future.result(); if prod: results.append(prod)
ProcResult ==
    /\ tk.pc = "done"
    /\ st' = [st EXCEPT !.results =
                 IF Truthy(tk.ret) THEN @ \cup {tk.ret} ELSE @]
    /\ tk' = TaskIdle
    /\ UNCHANGED fs
    /\ StageFrame

InitStageSpec ==
    /\ InitFiles /\ InitCalls /\ InitWorkers /\ InitFetch /\ InitStage
    /\ InitPool /\ InitWalk /\ InitQC /\ InitProgram
NextStage ==
    \/ RunStart \/ SiteChange \/ ProcessCall \/ ProcTry \/ ProcFetchAttempt
    \/ ProcFetchRaise \/ ProcCacheSet \/ ProcScrape \/ ProcDedup \/ ProcResult
SpecStage == InitStageSpec /\ [][NextStage]_vars

(***************************************************************************)
(* C6. When the cache holds the HTML of a product URL and the site still   *)
(* serves that same HTML, processing the URL makes no network request and  *)
(* returns the cached record.                                              *)
(***************************************************************************)
C6_CacheHitNoNetwork ==
    (tk.pc = "done" /\ tk.hit)
    => /\ tk.net = 0
       /\ tk.sku \in DOMAIN st.stored
       /\ tk.product = st.stored[tk.sku].ret

(***************************************************************************)
(* C7. Extraction idempotence: when the cache holds a record under the     *)
(* page's SKU with the page's content hash, scrape_product returns the     *)
(* record that was returned by the call that stored it, in every later run.*)
(***************************************************************************)
C7_WarmCacheSameRecord ==
    tk.warm => /\ tk.sku \in DOMAIN st.stored
               /\ tk.product = st.stored[tk.sku].ret

C7_Witness ==
    /\ tk.warm /\ st.run = MaxRuns
    /\ tk.product.ty = "dict"
    /\ \E f \in DOMAIN tk.product.items : tk.product.items[f] = PyNone

(***************************************************************************)
(* C10. The retry budget per URL: the orchestrator's loop and the          *)
(* fetcher's loop together make at most --retries attempts for one URL.    *)
(***************************************************************************)
C10_RetryBudget == tk.fetch_calls <= st.retries

(***************************************************************************)
(* The pipeline of backend.main: collect_product_urls (stage A), then      *)
(* scrape_products (stage B), each on its own ThreadPoolExecutor. The      *)
(* main thread submits and collects; the pool's threads run the calls.     *)
(***************************************************************************)
PoolFrame == UNCHANGED <<fs, cacheVars, concVars, fetchVars, stageVars, walkVars, qcVars, runVars>>

CategorySet == {PoolCategoryURLs[i] : i \in DOMAIN PoolCategoryURLs}

\* executor.submit(fetch_products, url) for the next url of category_urls
SubmitA ==
    /\ po.pc = "submitA"
    /\ po.next <= Len(PoolCategoryURLs)
    /\ po' = [po EXCEPT !.task[PoolCategoryURLs[po.next]].status = "pending",
                        !.next = @ + 1,
                        !.pc = IF po.next = Len(PoolCategoryURLs)
                               THEN "collectA" ELSE "submitA"]
    /\ PoolFrame

\* executor.submit(process, url) for a url of product_urls not yet submitted
SubmitB ==
    /\ po.pc = "submitB"
    /\ \E u \in po.product_urls :
        /\ po.task[u].status = "none"
        /\ po' = [po EXCEPT !.task[u].status = "pending",
                            !.pc = IF po.product_urls \ Submitted(po) = {u}
                                   THEN "collectB" ELSE "submitB"]
    /\ PoolFrame

\* a free thread of the pool takes a queued call
TaskStart ==
    /\ \E u \in PoolURLs :
        /\ po.task[u].status = "pending"
        /\ Cardinality(Running(po)) < po.max_workers
        /\ po' = [po EXCEPT !.task[u] = [@ EXCEPT !.status = "running", !.pc = "try"]]
    /\ PoolFrame

\* cache.exists(url) is true: html = cache.get(url)
TaskCacheHit ==
    /\ \E u \in Running(po) :
        /\ po.task[u].pc = "try" /\ po.task[u].cached
        /\ po' = [po EXCEPT !.task[u].pc = "extract"]
    /\ PoolFrame

\* fetch_url starts one more attempt
TaskFetch ==
    /\ \E u \in Running(po), o \in {"ok", "fail"} :
        /\ po.task[u].pc = "try" /\ ~po.task[u].cached
        /\ po.task[u].fa < po.retries
        /\ po' = task_fetch(po, u, o)
    /\ PoolFrame

\* fetch_url has used its attempts and raises
TaskFetchRaise ==
    /\ \E u \in Running(po) :
        /\ po.task[u].pc = "try" /\ ~po.task[u].cached
        /\ po.task[u].fa = po.retries
        /\ po' = task_fetch_raise(po, u)
    /\ PoolFrame

\* the page request of the call: extract_products_from_category / scrape_product
TaskExtract ==
    /\ \E u \in Running(po), o \in PoolOutcomes :
        /\ po.task[u].pc = "extract"
        /\ po' = IF IsCategory(u) THEN task_extract_category(po, u, o)
                 ELSE task_scrape_product(po, u, o)
    /\ PoolFrame

TaskSeenCheck ==
    /\ \E u \in Running(po) :
        /\ po.task[u].pc = "check"
        /\ po' = task_seen_check(po, u)
    /\ PoolFrame

TaskSeenAdd ==
    /\ \E u \in Running(po) :
        /\ po.task[u].pc = "add"
        /\ po' = task_seen_add(po, u)
    /\ PoolFrame

\* as_completed yields a finished future; the loop body runs on it
Collect ==
    /\ po.pc \in {"collectA", "collectB"}
    /\ \E u \in PoolURLs :
        /\ po.task[u].status = "finished"
        /\ po' = collect(po, u)
    /\ PoolFrame

\* collect_product_urls returns deduplicate(list(all_product_urls));
\* main calls scrape_products with it
ReturnA ==
    /\ po.pc = "collectA"
    /\ collect_returns(po, CategorySet)
    /\ shutdown_done(po)
    /\ po' = [po EXCEPT !.product_urls = po.all_product_urls,
                        !.pc = IF po.all_product_urls = {} THEN "done" ELSE "submitB"]
    /\ PoolFrame

\* scrape_products returns results
ReturnB ==
    /\ po.pc = "collectB"
    /\ collect_returns(po, po.product_urls)
    /\ shutdown_done(po)
    /\ po' = [po EXCEPT !.pc = "done"]
    /\ PoolFrame

\* the run is cancelled: the only means the program has is the interrupt
\* of the main thread (KeyboardInterrupt raised in its submit/collect loop)
Cancel ==
    /\ po.pc \in {"submitA", "collectA", "submitB", "collectB"}
    /\ po' = [po EXCEPT !.cancelled = TRUE, !.exc = "KeyboardInterrupt", !.pc = "abort"]
    /\ PoolFrame

\* an exception leaves the with-block: executor.shutdown(wait=True) first
\* waits for every submitted call, then the exception leaves main
Abort ==
    /\ po.pc = "abort"
    /\ shutdown_done(po)
    /\ po' = [po EXCEPT !.pc = "crashed"]
    /\ PoolFrame

InitPoolSpec ==
    /\ InitFiles /\ InitCalls /\ InitWorkers /\ InitFetch /\ InitStage
    /\ po \in {PoolBegin(n, r) : n \in WorkerCounts, r \in PoolRetries}
    /\ InitWalk /\ InitQC /\ InitProgram
NextPool ==
    \/ SubmitA \/ SubmitB \/ TaskStart \/ TaskCacheHit \/ TaskFetch \/ TaskFetchRaise
    \/ TaskExtract \/ TaskSeenCheck \/ TaskSeenAdd \/ Collect \/ ReturnA \/ ReturnB
    \/ Cancel \/ Abort
SpecPool == InitPoolSpec /\ [][NextPool]_vars

StageBBegun == \E u \in PoolProductURLs : po.task[u].status # "none"

\* C11: stage A completes fully before stage B begins: whenever a product
\* task has been submitted or started, no category task is pending or running
\* (every one has been submitted, has finished and has been collected).
C11_StageAThenB ==
    StageBBegun =>
        /\ \A c \in CategorySet : po.task[c].status = "collected"
        /\ po.pc \in {"submitB", "collectB", "done", "abort", "crashed"}

C11_Witness ==
    /\ \E u \in PoolProductURLs : po.task[u].status = "running"
    /\ \E u \in PoolProductURLs : po.task[u].status = "pending"
    /\ \A c \in CategorySet : po.task[c].status = "collected"
    /\ po.max_workers = 2

\* the results of the finished, collected calls are in the stage's output
Gathered(urls) ==
    \A u \in urls :
        /\ po.task[u].status = "collected"
        /\ IF IsCategory(u) THEN po.task[u].ret \subseteq po.product_urls
           ELSE po.task[u].ret # {} =>
                    \E i \in DOMAIN po.results : po.results[i] = pool_record(u)

\* C12: an exception raised while one URL is fetched or parsed does not abort
\* its stage: unless the run is cancelled the pipeline never aborts, and when
\* a stage returns every call submitted to it has run to completion and its
\* result has been collected.
C12_FailureDoesNotAbort ==
    /\ po.pc \in {"abort", "crashed"} => po.cancelled
    /\ po.pc \in {"submitB", "collectB", "done"} => Gathered(CategorySet)
    /\ po.pc = "done" => Gathered(po.product_urls)

C12_Witness ==
    /\ po.pc = "done"
    /\ \E a \in CategorySet : po.task[a].raised /\ po.task[a].ret = {}
    /\ \E b \in po.product_urls : po.task[b].raised /\ po.task[b].ret = {}
    /\ Len(po.results) >= 1

\* the (SKU, canonical URL) pairs of the products stage B has scraped
PairsEncountered ==
    {<<product_page(u).sku, product_page(u).canonical>> :
        u \in {v \in PoolProductURLs : po.task[v].scraped}}

\* C13: when stage B has returned, it has emitted as many records as there
\* are distinct (SKU, canonical URL) pairs among the products it scraped.
C13_OneRecordPerKey ==
    po.pc = "done" => Len(po.results) = Cardinality(PairsEncountered)

\* C14: once cancellation has been requested, no further HTTP request is
\* started: no call that had not begun issues one, no fetcher begins
\* another attempt.
C14_NoRequestAfterCancel ==
    [][po.cancelled => po'.requests = po.requests]_vars

(***************************************************************************)
(* The walker, the URL collectors and the extractor stage, by the URLs     *)
(* they request. Every request is answered: the site is the same in both   *)
(* runs.                                                                   *)
(***************************************************************************)
WalkFrame == UNCHANGED <<fs, cacheVars, concVars, fetchVars, stageVars, poolVars, qcVars, runVars>>

\* EXCLUDED_URL_PREFIXES as configured for run r
Prefixes(r) ==
    IF r = "E" THEN EXCLUDED_URL_PREFIXES ELSE EXCLUDED_URL_PREFIXES \cup {wa.extra}

\* tree = extract_category_tree(); then the category list of the collector:
\* recurse() in collect_product_urls, every node in extract_all_product_urls
Walk(r) ==
    /\ wa.run[r].pc = "start"
    /\ LET tree == extract_category_tree(wa.menu)
           todo == IF wa.pipeline = "backend" THEN recurse(tree, Prefixes(r))
                   ELSE all_category_urls(tree)
           exc == extract_category_tree_raises(wa.home)
       IN wa' = [wa EXCEPT !.run[r] =
                    IF exc # ""
                    THEN [@ EXCEPT !.pc = "raised", !.exc = exc,
                              !.requested = @ \cup {Request("walker", BASE_URL, BASE_URL)}]
                    ELSE [@ EXCEPT !.pc = "collect", !.tree = tree, !.todo = todo,
                              !.requested = @ \cup {Request("walker", BASE_URL, BASE_URL)}]]
    /\ WalkFrame

\* the collector on the next category: fetch_products(url) of backend.py
\* (fetch_url(url), then extract_products_from_category(url)) or
\* extract_products_from_category(node["url"]) of extract_all_product_urls
CollectNext(r) ==
    /\ wa.run[r].pc = "collect"
    /\ wa.run[r].todo # <<>>
    /\ LET url == Head(wa.run[r].todo) IN
       wa' = [wa EXCEPT !.run[r] =
                [@ EXCEPT !.todo = Tail(@),
                          !.requested = @ \cup {Request("collector", url, url)},
                          !.product_urls = @ \cup filtered_links(url, Prefixes(r))]]
    /\ WalkFrame

\* the collector has returned; scrape_products is called
CollectDone(r) ==
    /\ wa.run[r].pc = "collect"
    /\ wa.run[r].todo = <<>>
    /\ wa' = [wa EXCEPT !.run[r].pc = "extract"]
    /\ WalkFrame

\* process(url) for one product URL: fetch_url(url), then scrape_product(url),
\* which returns None before its request when the URL is excluded
ExtractNext(r) ==
    /\ wa.run[r].pc = "extract"
    /\ \E u \in wa.run[r].product_urls \ wa.run[r].extracted :
        wa' = [wa EXCEPT !.run[r] =
                [@ EXCEPT !.extracted = @ \cup {u},
                          !.requested = @ \cup {Request("extractor", u, u)}]]
    /\ WalkFrame

ExtractDone(r) ==
    /\ wa.run[r].pc = "extract"
    /\ wa.run[r].product_urls = wa.run[r].extracted
    /\ wa' = [wa EXCEPT !.run[r].pc = "done"]
    /\ WalkFrame

\* one of the collectors is called for one category
CollectorCall ==
    /\ wa.co.pc \in {"idle", "done"}
    /\ \E impl \in Collectors, c \in WalkCategories :
        wa' = [wa EXCEPT !.co = [CollectorIdle EXCEPT !.impl = impl,
                                     !.category_url = c, !.pc = "page"]]
    /\ WalkFrame

\* the product links on page `page` of a category, and whether the page
\* has a "next" link
page_links(category_url, page) ==
    IF page = 1 \/ wa.paging # "ends" THEN category_links(category_url) ELSE {}
has_next(category_url, page) ==
    category_url \in wa.next_links /\ (page = 1 \/ wa.paging # "ends")
\* get_soup(page URL) is a soup: the site has such a page
page_exists(category_url, page) ==
    \/ page = 1
    \/ category_url \in wa.next_links /\ (page = 2 \/ wa.paging = "every")
\* the page the "next" link of a page leads to
next_page(page) ==
    IF wa.paging = "cycle" /\ page = 2 THEN 1
    ELSE IF page < MaxPages THEN page + 1 ELSE page
\* the href of the "next" link of the category's page
next_href(category_url, page) ==
    IF page > 1 THEN category_url \o "page/" \o ToString(page) \o "/" ELSE category_url

\* the collector requests a page and reads it:
\*   product  - extract_products_from_category of scraper/product.py
\*   enhanced - extract_products_from_category_enhanced (one loop pass)
\*   legacy   - extract_products_from_category of table_se_scraper.py
CollectorPage ==
    /\ wa.co.pc = "page"
    /\ LET c == [wa.co EXCEPT !.odd = ~@]
           cat == c.category_url
           links == page_links(cat, c.page)
       IN wa' = [wa EXCEPT !.co =
            CASE c.impl = "product" ->
                    [c EXCEPT !.requested = @ \cup {cat}, !.pc = "done",
                              !.product_urls = filtered_links(cat, EXCLUDED_URL_PREFIXES)]
              [] c.impl = "enhanced" ->
                    LET q == [c EXCEPT !.requested = @ \cup {paged_url(cat, c.page)}] IN
                    IF ~page_exists(cat, c.page) \/ links = {} THEN [q EXCEPT !.pc = "done"]
                    ELSE IF ~has_next(cat, c.page)
                         THEN [q EXCEPT !.product_urls = @ \cup links, !.pc = "done"]
                         ELSE [q EXCEPT !.product_urls = @ \cup links,
                                        !.page = IF @ < MaxPages THEN @ + 1 ELSE @]
              [] c.impl = "legacy" ->
                    LET q == [c EXCEPT !.requested = @ \cup {next_href(cat, c.page)},
                                       !.product_urls = @ \cup links] IN
                    IF has_next(cat, c.page) THEN [q EXCEPT !.page = next_page(@)]
                    ELSE [q EXCEPT !.pc = "done"]]
    /\ WalkFrame

InitWalkSpec ==
    /\ InitFiles /\ InitCalls /\ InitWorkers /\ InitFetch /\ InitStage
    /\ InitPool /\ InitQC /\ InitProgram
    /\ wa \in {WalkBegin(m, p, x, n, h, "ends") : m \in Menus, p \in Pipelines,
                    x \in ExtraPrefixes, n \in {{}, {CatBord}}, h \in HomeOutcomes}
NextWalk ==
    \/ \E r \in Runs : Walk(r) \/ CollectNext(r) \/ CollectDone(r)
                        \/ ExtractNext(r) \/ ExtractDone(r)
    \/ CollectorCall \/ CollectorPage
SpecWalk == InitWalkSpec /\ [][NextWalk]_vars

SeqSet(s) == {s[i] : i \in DOMAIN s}

\* the URLs of the menu entries the tree is to hold under an exclusion list:
\* an entry under /produkter/ that is not excluded, with those of its nested
\* entries that are admitted in turn
RECURSIVE Admitted(_, _)
Admitted(ul, prefixes) ==
    IF ul = <<>> THEN {}
    ELSE LET li == Head(ul) IN
         (IF li.href # "" /\ in_produkter(li.href)
             /\ ~is_excluded_under(prefixes, urljoin(li.href))
          THEN {urljoin(li.href)} \cup Admitted(li.ul, prefixes)
          ELSE {})
         \cup Admitted(Tail(ul), prefixes)

Walked(r) == wa.run[r].pc \notin {"start", "raised"}

\* C15: no node of the tree the walker returns satisfies the exclusion
\* predicate: an excluded menu entry is left out with its descendants, its
\* non-excluded siblings are kept.
C15_NoExcludedNode ==
    \A r \in Runs : Walked(r) =>
        /\ \A u \in SeqSet(all_category_urls(wa.run[r].tree)) :
               ~is_excluded_under(Prefixes(r), u)
        /\ SeqSet(all_category_urls(wa.run[r].tree))
               = Admitted(top_ul(find_all_ul(wa.menu)), Prefixes(r))

RequestedURLs(r) == {q.url : q \in wa.run[r].requested}

\* C16: the URLs requested under the exclusion list plus one prefix are among
\* those requested under the list alone, and no URL that satisfies the
\* exclusion predicate of its run is requested by the walker, the collector
\* or the extractor stage.
C16_ExclusionMonotone ==
    /\ \A r \in Runs : \A q \in wa.run[r].requested :
           ~is_excluded_under(Prefixes(r), q.url)
    /\ (wa.run["E"].pc = "done" /\ wa.run["Eplus"].pc = "done")
           => RequestedURLs("Eplus") \subseteq RequestedURLs("E")

\* C17: for a category URL the collector requests that URL only, never a
\* page URL derived from it.
C17_NoPagedQueries ==
    /\ \A u \in wa.co.requested : u = wa.co.category_url
    /\ \A r \in Runs : \A q \in wa.run[r].requested :
           q.who = "collector" => q.url = q.of

\* C25: when the fetch of the navigation page yields nothing (an error
\* status, or no answer), extract_category_tree raises no error and returns
\* the empty tree.
C25_EmptyTreeWhenNoPage ==
    \A r \in Runs : (wa.home # "nav" /\ wa.run[r].pc # "start") =>
        /\ wa.run[r].pc # "raised"
        /\ wa.run[r].tree = <<>>

(***************************************************************************)
(* SpecPaging: a collector is called for a category of a site with one of  *)
(* the pagings. A collector that has been called keeps running: weak       *)
(* fairness of its loop pass.                                              *)
(***************************************************************************)
InitPagingSpec ==
    /\ InitFiles /\ InitCalls /\ InitWorkers /\ InitFetch /\ InitStage
    /\ InitPool /\ InitQC /\ InitProgram
    /\ wa \in {WalkBegin(m, p, <<"produkter", "rea">>, n, "nav", g) :
                    m \in Menus, p \in Pipelines,
                    n \in {{}, {CatBord}, WalkCategories}, g \in Pagings}
NextPaging == CollectorCall \/ CollectorPage
SpecPaging == InitPagingSpec /\ [][NextPaging]_vars /\ WF_vars(CollectorPage)

\* C29: the paging loop of a collector that has been called for a category
\* stops after finitely many page fetches and returns, whatever the paging
\* of the site.
C29_PagingTerminates ==
    (wa.co.pc = "page") ~> (wa.co.pc = "done")

(***************************************************************************)
(* SpecQC: the QC gate is handed a list of products and one of its entry   *)
(* points is called on it.                                                 *)
(***************************************************************************)
QcFrame == UNCHANGED <<fs, cacheVars, concVars, fetchVars, stageVars, poolVars, walkVars,
                       runVars>>

dedup_with(impl, products) ==
    IF impl = "qc" THEN deduplicate_products(products, <<>>)
    ELSE legacy_deduplicate_products(products, <<>>)

\* deduped = deduplicate_products(products)
Deduplicate(impl) ==
    /\ qc.pc = "input"
    /\ qc' = [qc EXCEPT !.pc = "deduped", !.dedup = impl,
                        !.deduped = dedup_with(impl, qc.products)]
    /\ QcFrame

\* deduplicate_products(deduped), the same function on its own result
DeduplicateAgain ==
    /\ qc.pc = "deduped"
    /\ qc' = [qc EXCEPT !.pc = "deduped_twice", !.twice = dedup_with(qc.dedup, qc.deduped)]
    /\ QcFrame

\* filtered, product_errors = scan_products(products)
ScanProducts ==
    /\ qc.pc = "input"
    /\ LET r == scan_products(qc.products, <<>>, "Pris inkl. moms (värde)", 35)
       IN qc' = [qc EXCEPT !.pc = "scanned", !.filtered = r.filtered,
                           !.product_errors = r.product_errors]
    /\ QcFrame

\* outliers = detect_anomalies(products, anomaly_field, z_thresh=anomaly_z)
DetectAnomalies ==
    /\ qc.pc = "input"
    /\ qc' = [qc EXCEPT !.pc = "detected",
                        !.outliers = detect_anomalies(qc.products, "Pris inkl. moms (värde)", 35)]
    /\ QcFrame

\* step 5 of main() in scraper/backend.py, products in the order
\* scrape_products gathered them from the workers
MainExport ==
    /\ qc.pc = "input"
    /\ qc' = [qc EXCEPT !.pc = "main_written", !.rows = main_rows(qc.products)]
    /\ QcFrame

\* export_to_csv(data, filename) and export_to_xlsx(data, filename)
ExportToFile ==
    /\ qc.pc = "input"
    /\ qc' = [qc EXCEPT !.pc = "file_written", !.rows = export_rows(qc.products, "Namn")]
    /\ QcFrame

\* sort_products(data)
SortProducts ==
    /\ qc.pc = "input"
    /\ qc' = [qc EXCEPT !.pc = "sorted", !.rows = sort_products(qc.products, "Namn")]
    /\ QcFrame

\* errors = validate_products_with_scanner(products)
ValidateProductsWithScanner ==
    /\ qc.pc = "input"
    /\ qc' = [qc EXCEPT !.pc = "validated",
                        !.product_errors = validate_products_with_scanner(qc.products, <<>>, 1, {})]
    /\ QcFrame

\* qc_and_export_to_xlsx(products, filename, error_filename)
QcAndExportToXlsx(error_filename) ==
    /\ qc.pc = "input"
    /\ LET r == qc_and_export_to_xlsx(qc.products, error_filename)
       IN qc' = [qc EXCEPT !.pc = "exported", !.error_filename = error_filename,
                           !.deduped = deduplicate_products(qc.products, <<>>),
                           !.valid = r.valid, !.errors = r.errors]
    /\ QcFrame

InitQCSpec ==
    /\ InitFiles /\ InitCalls /\ InitWorkers /\ InitFetch /\ InitStage
    /\ InitPool /\ InitWalk /\ InitProgram
    /\ qc \in {QcBegin("input", products) : products \in QcLists}

NextQC ==
    \/ \E impl \in Dedups : Deduplicate(impl)
    \/ DeduplicateAgain
    \/ ScanProducts
    \/ DetectAnomalies
    \/ MainExport
    \/ ExportToFile
    \/ SortProducts
    \/ ValidateProductsWithScanner
    \/ \E error_filename \in BOOLEAN : QcAndExportToXlsx(error_filename)

SpecQC == InitQCSpec /\ [][NextQC]_vars

\* a field that holds a text with something other than blanks in it
NonEmpty(product, field) ==
    product[field].ty = "str" /\ strip(product[field].chars) # <<>>

KeyFacts == {"Namn", "Artikelnummer", "Pris inkl. moms (värde)", "Produkt-URL"}

HasKeyFacts(product) == \A f \in KeyFacts : NonEmpty(product, f)

FirstOfKey(products) ==
    SelectSeq([i \in 1..Len(products) |-> i],
              LAMBDA i : \A j \in 1..(i - 1) :
                  dedup_key(products[j], <<"Namn", "Artikelnummer">>)
                    # dedup_key(products[i], <<"Namn", "Artikelnummer">>))

\* C19: deduplication applied to its own result changes nothing, and its
\* result is the input list, order kept, cut down to the first record of
\* each normalized key tuple.
C19_DedupIdempotentFirstWins ==
    /\ qc.pc = "deduped_twice" => qc.twice = qc.deduped
    /\ qc.pc \in {"deduped", "deduped_twice"} =>
         qc.deduped = [k \in 1..Len(FirstOfKey(qc.products)) |->
                          qc.products[FirstOfKey(qc.products)[k]]]

SeqRange(s) == {s[i] : i \in 1..Len(s)}

\* the violations of products[i]: what validate_product reports for it
Violations(products, i) == SeqRange(validate_product(products[i], <<>>))

\* the outlier messages scan_products makes for products[i]
OutlierViolations(products, i) ==
    LET outliers == detect_anomalies(products, "Pris inkl. moms (värde)", 35)
    IN {outlier_msg("Pris inkl. moms (värde)", outliers[k].val) :
           k \in {k \in 1..Len(outliers) : outliers[k].idx = i - 1}}

Reported(d, key, violations) ==
    violations # {} => dict_has(d, key) /\ violations \subseteq SeqRange(dict_at(d, key))

\* C20: every violation found for a record is in errors_by_key under that
\* record's subject key, the record being flagged and not corrected.
C20_EveryViolationReported ==
    /\ qc.pc = "scanned" =>
         \A i \in 1..Len(qc.products) :
            Reported(qc.product_errors, scan_key(qc.products[i], i - 1),
                     Violations(qc.products, i) \cup OutlierViolations(qc.products, i))
    /\ qc.pc = "validated" =>
         \A i \in 1..Len(qc.products) :
            Reported(qc.product_errors, qc_key(qc.products[i], i - 1),
                     Violations(qc.products, i))

\* the records with a numeric price: their indexes from 1, in order
Priced(products) ==
    SelectSeq([i \in 1..Len(products) |-> i],
              LAMBDA i : to_float(py_str(dict_get(products[i], "Pris inkl. moms (värde)",
                                                  QStr(<<>>)))).ok)

PriceOf(products, i) ==
    to_float(py_str(dict_get(products[i], "Pris inkl. moms (värde)", QStr(<<>>)))).value

\* twice the median of the prices, and four times the median of their
\* distances to it
PriceMedian2(products) ==
    median2([k \in 1..Len(Priced(products)) |-> PriceOf(products, Priced(products)[k])])

PriceMad4(products) ==
    LET m == PriceMedian2(products)
        d(k) == 2 * PriceOf(products, Priced(products)[k]) - m
    IN median2([k \in 1..Len(Priced(products)) |-> IF d(k) < 0 THEN 0 - d(k) ELSE d(k)])

\* 0.6745 * (x - median) / MAD > 3.5 for the price x of products[i], MAD > 0
ZAbove(products, i) ==
    6745 * 2 * (2 * PriceOf(products, i) - PriceMedian2(products)) > 35000 * PriceMad4(products)

\* the same for the negated score: x lies that far below the median
ZBelow(products, i) ==
    6745 * 2 * (PriceMedian2(products) - 2 * PriceOf(products, i)) > 35000 * PriceMad4(products)

Flagged == {qc.outliers[k].idx + 1 : k \in 1..Len(qc.outliers)}

NoFlagCase(products) == Len(Priced(products)) < 3 \/ PriceMad4(products) = 0

\* C21 as stated: the flagged records are exactly those whose modified
\* Z-score 0.6745 * (x - median) / MAD is greater than 3.5, and none is
\* flagged when MAD = 0 or fewer than 3 records have a numeric price.
C21_FlagsScoreAbove ==
    qc.pc = "detected" =>
        IF NoFlagCase(qc.products) THEN Flagged = {}
        ELSE Flagged = {i \in SeqRange(Priced(qc.products)) : ZAbove(qc.products, i)}

\* C21 amended: the flagged records are exactly those whose modified
\* Z-score is greater than 3.5 in absolute value, so a price far below the
\* median is flagged as one far above it is; none is flagged when MAD = 0
\* or fewer than 3 records have a numeric price.
C21_FlagsScoreAbs ==
    qc.pc = "detected" =>
        IF NoFlagCase(qc.products) THEN Flagged = {}
        ELSE Flagged = {i \in SeqRange(Priced(qc.products)) :
                           ZAbove(qc.products, i) \/ ZBelow(qc.products, i)}

C21_Witness ==
    /\ qc.pc = "detected"
    /\ ~NoFlagCase(qc.products)
    /\ \E i \in Flagged : ZBelow(qc.products, i)

\* the name of a record as the comparison sees it: lower-cased, a missing
\* name as the empty text
NameKey(product) == str_lower(dict_get(product, "Namn", QStr(<<>>)).chars)

AscendingByName(rows) ==
    \A k \in 1..(Len(rows) - 1) : ~str_lt(NameKey(rows[k + 1]), NameKey(rows[k]))

ProgramFrame ==
    UNCHANGED <<cacheVars, concVars, fetchVars, stageVars, poolVars, walkVars, qcVars>>

\* process(url): cache.set(url, html, Cache.hash_content(html)), which
\* returns None whether or not the file was written; the stage goes on
ProgramCacheSet ==
    \E url \in rn.todo, h \in Hashes, disk \in DiskOutcomes :
        /\ rn.pc = "scraping"
        /\ fs' = Cache_set_on(fs, url, PyStr(h), PyStr(h), disk)
        /\ rn' = [rn EXCEPT !.todo = @ \ {url},
                            !.save_failed = @ + (IF disk = "ok" THEN 0 ELSE 1)]
        /\ ProgramFrame

\* step 5 of main() in scraper/backend.py: open(args.output, "w") and the
\* writes are not inside a try block, an OSError leaves main() and the
\* interpreter prints the traceback and exits with status 1
MainWrite ==
    \E disk \in DiskOutcomes :
        /\ rn.pc = "scraping" /\ rn.todo = {} /\ rn.entry = "scraper/backend.py"
        /\ rn' = [rn EXCEPT !.pc = "exited",
                            !.written = (disk = "ok"),
                            !.write_failed = (disk # "ok"),
                            !.traceback = (disk # "ok"),
                            !.exit = IF disk = "ok" THEN 0 ELSE 1]
        /\ UNCHANGED fs
        /\ ProgramFrame

\* step 6 of run_scraper_pipeline() in main.py: export_to_csv catches the
\* exception of the write, logs it and returns None; the pipeline does not
\* look at the returned value
PipelineExport ==
    \E disk \in DiskOutcomes :
        /\ rn.pc = "scraping" /\ rn.todo = {} /\ rn.entry = "main.py"
        /\ rn' = [rn EXCEPT !.pc = "exported",
                            !.written = (disk = "ok"),
                            !.write_failed = (disk # "ok")]
        /\ UNCHANGED fs
        /\ ProgramFrame

\* run_scraper_pipeline() logs its completion and returns: exit status 0
PipelineReturn ==
    /\ rn.pc = "exported"
    /\ rn' = [rn EXCEPT !.pc = "exited", !.exit = 0]
    /\ UNCHANGED fs
    /\ ProgramFrame

InitProgramSpec ==
    /\ InitFiles /\ InitCalls /\ InitWorkers /\ InitFetch /\ InitStage
    /\ InitPool /\ InitWalk /\ InitQC
    /\ rn \in {ProgramBegin("scraping", entry, todo) :
                   entry \in EntryPoints, todo \in SUBSET PoolProductURLs}

NextProgram == ProgramCacheSet \/ MainWrite \/ PipelineExport \/ PipelineReturn

SpecProgram == InitProgramSpec /\ [][NextProgram]_vars

\* C23: a write of the cache or of the output that fails is fatal: the run
\* is aborted there with a non-zero exit status, and is in no state where
\* it goes on, or has ended with status 0, after a failed write.
C23_FailedWriteIsFatal ==
    (rn.save_failed > 0 \/ rn.write_failed) => (rn.pc = "exited" /\ rn.exit # 0)

\* the keys of the record scrape_product builds, as far as the model
\* carries them
SchemaKeys ==
    {"Namn", "Artikelnummer", "Pris inkl. moms (varde)", "Langd (varde)", "Produkt-URL"}

\* C24: every record the extractor returns, built from the page or taken
\* from the cache, holds every key of the schema, and every field is a
\* text, the empty text where the page gave no value: never None, never
\* absent.
C24_RecordHasEveryKeyAsText ==
    (tk.pc \in {"dedup", "done"} /\ Truthy(tk.product)) =>
        /\ tk.product.ty = "dict"
        /\ DOMAIN tk.product.items = SchemaKeys
        /\ \A f \in SchemaKeys : tk.product.items[f].ty = "str"

\* C26: when process(url) has fetched the page afresh and its extraction
\* has yielded no record, the cache holds no entry for the URL.
C26_SetOnlyAfterExtraction ==
    (tk.pc = "done" /\ tk.f.pc = "returned" /\ ~Truthy(tk.product)) =>
        ~Cache_exists(fs, tk.url, PyNone)

\* C28: for every retries value, 0 included, a product URL that was not in
\* the cache has received at least one HTTP attempt when process(url) is
\* done with it.
C28_UncachedUrlIsAttempted ==
    (tk.pc = "done" /\ tk.f.pc # "idle") => tk.net >= 1

\* C27: exists and get agree: for the key and the hash argument of the call
\* that returned last, exists is true exactly when get returns a payload.
C27_ExistsAgreesWithGet ==
    /\ last.op = "exists" =>
          ((last.ret = PyBool(TRUE)) <=> (Cache_get(fs, last.key, last.hash) # PyNone))
    /\ last.op = "get" =>
          ((last.ret # PyNone) <=> Cache_exists(fs, last.key, last.hash))

\* C30: after scan_products no record of the filtered list has its subject
\* key (SKU, else product URL, else index) in the returned errors dict.
C30_FilteredDisjointFromErrors ==
    qc.pc = "scanned" =>
        \A i \in 1..Len(qc.products) :
            list_contains(qc.filtered, qc.products[i]) =>
                ~dict_has(qc.product_errors, scan_key(qc.products[i], i - 1))

====
